---- MODULE Spec2Model ----
(***************************************************************************)
(* Model of ddl/ddl_ops.go of schrddl: the DDL preparers, the appliers of  *)
(* the shadow catalog, and the parallel dispatcher with its order oracle   *)
(* (execParaDDLSQL / getSortTask).                                         *)
(*                                                                         *)
(* Go pointers are positive indices into heaps kept in the catalog record; *)
(* 0 is nil.  The catalog `c` is the *testCase: its maps, the heaps of the *)
(* objects the maps and the tasks point to, lastDDLID and the uuid source. *)
(* Appliers and preparers are operators from a catalog to a new catalog    *)
(* (and an error or a task); the actions thread them through the state.    *)
(***************************************************************************)
EXTENDS Integers, Sequences, FiniteSets, TLC

VARIABLES
  c,          \* the testCase: shadow catalog, heaps, lastDDLID, uuid source
  taskCh,     \* the task channel: tasks prepared and not yet drained
  pc,         \* the dispatcher's position: "idle", "workers", "apply", "aborted"
  tasks,      \* the batch drained by execParaDDLSQL (task.err, task.ddlID live here)
  running,    \* indices of the batch's workers that have not finished db.Exec
  sortTasks,  \* getSortTask's result: indices into tasks, in replay order
  applyIdx,   \* position of the replay loop in sortTasks
  result,     \* what the last execParaDDLSQL call returned
  lerr,       \* the error of the applier the replay loop called last
  history,    \* the server's DDL history ("admin show ddl jobs"), oldest first
  nprep,      \* number of preparer calls that emitted a task so far
  locks       \* per goroutine inside a preparer or applier: its function, its
              \* table, its position in the function's locking, the locks held

vars ==
  <<c, taskCh, pc, tasks, running, sortTasks, applyIdx, result, lerr, history, nprep, locks>>

\* Total number of tasks the preparers emit in one run.
MaxTasks == 2

NULL == 0

\* Number of goroutines followed through the locking of the preparers and
\* appliers.
MaxProcs == 2

Procs == 1..MaxProcs

\* a goroutine that is in no preparer or applier
NotLocking == [op |-> "none", table |-> NULL, at |-> 1, held |-> <<>>]

\* ------------------------------------------------------------------------
\* DDL kinds and strategies
\* ------------------------------------------------------------------------
ddlAddTable == "create table"
ddlAddIndex == "add index"
ddlAddColumn == "add column"
ddlCreateSchema == "create schema"
ddlCreateView == "create view"
ddlDropTable == "drop table"
ddlDropIndex == "drop index"
ddlDropColumn == "drop column"
ddlDropSchema == "drop schema"
ddlRenameTable == "rename table"
ddlRenameIndex == "rename index"
ddlModifyColumn == "modify column"
ddlTruncateTable == "truncate table"
ddlModifyTableComment == "modify table comment"
ddlModifyTableCharsetAndCollate == "modify table charset and collate"
ddlShardRowID == "shard row ID"
ddlRebaseAutoID == "rebase auto_increment ID"
ddlSetDefaultValue == "set default value"

ddlTestAddDropColumnStrategyAtBeginning == "AtBeginning"
ddlTestAddDropColumnStrategyAtEnd == "AtEnd"
ddlTestAddDropColumnStrategyAtRandom == "AtRandom"

KindInt == "KindInt"
KindBLOB == "KindBLOB"

\* error values: "nil" is Go's nil error
NoErr == "nil"

\* ------------------------------------------------------------------------
\* Sequence and map helpers (Go slices, arraylist.List, map[string]*T)
\* ------------------------------------------------------------------------
\* arraylist.Remove(index), index counted from 0; out of range is a no-op
ListRemove(s, i) ==
  IF i < 0 \/ i >= Len(s) THEN s
  ELSE SubSeq(s, 1, i) \o SubSeq(s, i + 2, Len(s))

\* arraylist.Insert(index, v), index counted from 0; index = size appends,
\* an index out of range is a no-op
ListInsert(s, i, v) ==
  IF i < 0 \/ i > Len(s) THEN s
  ELSE SubSeq(s, 1, i) \o <<v>> \o SubSeq(s, i + 1, Len(s))

\* m[k] = v
MapPut(m, k, v) == [n \in DOMAIN m \cup {k} |-> IF n = k THEN v ELSE m[n]]

\* delete(m, k)
MapDelete(m, k) == [n \in DOMAIN m \ {k} |-> m[n]]

EmptyMap == [n \in {} |-> NULL]

\* the elements of a sequence
Range(s) == {s[i] : i \in DOMAIN s}

\* first 0-based position of an element satisfying the name test, or -1
RECURSIVE FindFrom(_, _, _)
FindFrom(names, name, i) ==
  IF i > Len(names) THEN -1
  ELSE IF names[i] = name THEN i - 1
  ELSE FindFrom(names, name, i + 1)

\* ------------------------------------------------------------------------
\* Heap accessors
\* ------------------------------------------------------------------------
\* the elements of table.columns, an *arraylist.List shared by pointer
Columns(cat, t) == cat.lists[cat.tbl[t].columns]

\* the elements of table.indexes: a slice header (array, len) over a backing array
Indexes(cat, t) == SubSeq(cat.arrs[cat.tbl[t].idxArr], 1, cat.tbl[t].idxLen)

ColumnNames(cat, t) == [i \in DOMAIN Columns(cat, t) |-> cat.col[Columns(cat, t)[i]].name]

IndexNames(cat, t) == [i \in DOMAIN Indexes(cat, t) |-> cat.idx[Indexes(cat, t)[i]].name]

\* uuid.NewV4().String(): a name never handed out before
NewName(cat) == cat.uuid + 1


\* append(table.indexes, x): writes in place when the capacity allows, and
\* otherwise moves the slice to a new backing array of doubled capacity
AppendIndex(cat, t, x) ==
  LET a == cat.tbl[t].idxArr
      n == cat.tbl[t].idxLen
      cap == Len(cat.arrs[a])
      newcap == IF cap = 0 THEN 1 ELSE 2 * cap
      grown == [i \in 1..newcap |-> IF i <= n THEN cat.arrs[a][i]
                                    ELSE IF i = n + 1 THEN x ELSE NULL]
  IN IF n < cap
     THEN [cat EXCEPT !.arrs[a][n + 1] = x, !.tbl[t].idxLen = n + 1]
     ELSE [cat EXCEPT !.arrs = Append(cat.arrs, grown),
                      !.tbl[t].idxArr = Len(cat.arrs) + 1,
                      !.tbl[t].idxLen = n + 1]

\* append(table.indexes[:i], table.indexes[i+1:]...), i counted from 0: the
\* tail is shifted down inside the backing array, whose last slot keeps its value
RemoveIndexAt(cat, t, i) ==
  LET a == cat.tbl[t].idxArr
      n == cat.tbl[t].idxLen
      shifted == [j \in DOMAIN cat.arrs[a] |->
                    IF j > i /\ j < n THEN cat.arrs[a][j + 1] ELSE cat.arrs[a][j]]
  IN [cat EXCEPT !.arrs[a] = shifted, !.tbl[t].idxLen = n - 1]

\* ------------------------------------------------------------------------
\* Tasks
\* ------------------------------------------------------------------------
NoArg ==
  [newTbl |-> NULL, index |-> NULL, preIndex |-> 0, newIndex |-> 0,
   origColumnIndex |-> 0, origColumn |-> NULL, column |-> NULL,
   strategy |-> "", insertAfterColumn |-> NULL,
   newComm |-> 0, newCharset |-> "", newCollate |-> "", shardRowId |-> 0,
   columnIndex |-> 0, newDefaultValue |-> 0]

\* a ddlJobTask; k = "none" stands for "the preparer emitted no task". seq is
\* the identity of the task object (its address), set when it is sent; exec is
\* the error db.Exec returned to the task's worker ("none" before it ran)
Task(k, tblInfo, schemaInfo, viewInfo, arg) ==
  [k |-> k, tblInfo |-> tblInfo, schemaInfo |-> schemaInfo, viewInfo |-> viewInfo,
   arg |-> arg, err |-> NoErr, ddlID |-> 0, seq |-> 0, exec |-> "none"]

NoTask == Task("none", NULL, NULL, NULL, NoArg)

\* what a preparer leaves behind: the catalog and the task sent on taskCh
Prepared(cat, task) == [c |-> cat, task |-> task]

\* what an applier leaves behind: the catalog and the error it returns
Applied(cat, err) == [c |-> cat, err |-> err]

\* ------------------------------------------------------------------------
\* Catalog queries of the testCase that the preparers and appliers call
\* ------------------------------------------------------------------------
\* table.isDeleted(): the tombstone flag
isDeleted(cat, t) == cat.tbl[t].deleted

\* c.isTableDeleted(table): the table is no longer registered in c.tables
isTableDeleted(cat, t) == cat.tbl[t].name \notin DOMAIN cat.tables

\* c.isSchemaDeleted(schema): the schema is no longer registered in c.schemas
isSchemaDeleted(cat, s) == cat.sch[s].name \notin DOMAIN cat.schemas

\* c.pickupRandomTable(): the values it can return: a registered table that
\* is not tombstoned, or nil when there is none
pickupRandomTable(cat) ==
  LET live == {cat.tables[n] : n \in {m \in DOMAIN cat.tables : ~cat.tbl[cat.tables[m]].deleted}}
  IN IF live = {} THEN {NULL} ELSE live

\* c.pickupRandomSchema(): likewise for schemas
pickupRandomSchema(cat) ==
  LET live == {cat.schemas[n] : n \in {m \in DOMAIN cat.schemas : ~cat.sch[cat.schemas[m]].deleted}}
  IN IF live = {} THEN {NULL} ELSE live

\* table.filterColumns(table.predicateAll): the columns not tombstoned, in order
RECURSIVE FilterLive(_, _)
FilterLive(cat, cols) ==
  IF cols = <<>> THEN <<>>
  ELSE IF cat.col[Head(cols)].deleted THEN FilterLive(cat, Tail(cols))
  ELSE <<Head(cols)>> \o FilterLive(cat, Tail(cols))

filterColumns(cat, t) == FilterLive(cat, Columns(cat, t))

\* column.hasGenerateCol(): some generated column depends on this one
hasGenerateCol(cat, x) == Len(cat.col[x].dependenciedCols) > 0

\* column.isGenerated()
isGenerated(cat, x) == cat.col[x].dependency # NULL

\* kind-family predicates of the column library
canBeIndex(cat, x) == cat.col[x].k # KindBLOB
canBeModified(cat, x) == cat.col[x].k # KindBLOB
canBePrimary(cat, x) == cat.col[x].k # KindBLOB

\* ------------------------------------------------------------------------
\* Schemas
\* ------------------------------------------------------------------------
prepareCreateSchema(cat) ==
  LET schema == [name |-> NewName(cat), id |-> NULL, deleted |-> FALSE]
      cat1 == [cat EXCEPT !.uuid = NewName(cat), !.sch = Append(cat.sch, schema)]
  IN Prepared(cat1, Task(ddlCreateSchema, NULL, Len(cat.sch) + 1, NULL, NoArg))

createSchemaJob(cat, task) ==
  Applied([cat EXCEPT !.schemas = MapPut(cat.schemas, cat.sch[task.schemaInfo].name, task.schemaInfo)],
          NoErr)

prepareDropSchema(cat, schema) ==
  IF schema = NULL THEN Prepared(cat, NoTask)
  ELSE Prepared([cat EXCEPT !.sch[schema].deleted = TRUE],
                Task(ddlDropSchema, NULL, schema, NULL, NoArg))

dropSchemaJob(cat, task) ==
  IF isSchemaDeleted(cat, task.schemaInfo)
  THEN Applied(cat, "schema doesn't exist")
  ELSE Applied([cat EXCEPT !.schemas = MapDelete(cat.schemas, cat.sch[task.schemaInfo].name)],
               NoErr)


\* ------------------------------------------------------------------------
\* Tables and views
\* ------------------------------------------------------------------------
\* Number of columns of a table made by prepareAddTable.
TableColumns == 2

NewColumn(name, k, pk) ==
  [name |-> name, k |-> k, isPrimaryKey |-> pk, indexReferences |-> 0,
   deleted |-> FALSE, renamed |-> FALSE, dependency |-> NULL,
   dependenciedCols |-> <<>>, defaultValue |-> 0]

\* c.pickupRandomCharsetAndCollate(): the charsets it can return, and the
\* collation that comes with each
Charsets == {"utf8", "utf8mb4"}

Collate(charset) == IF charset = "utf8" THEN "utf8_bin" ELSE "utf8mb4_bin"

\* primaryKeys: the positions (from 1) of the columns elected as primary key;
\* charset: the charset drawn for the table. comment 0 stands for the comment
\* given at creation
prepareAddTable(cat, primaryKeys, charset) ==
  LET base == Len(cat.col)
      newCols == [i \in 1..TableColumns |->
                    NewColumn(cat.uuid + i, KindInt, i \in primaryKeys)]
      tableInfo == [name |-> cat.uuid + TableColumns + 1, id |-> NULL,
                    columns |-> Len(cat.lists) + 1,
                    idxArr |-> Len(cat.arrs) + 1, idxLen |-> 0, deleted |-> FALSE,
                    comment |-> 0, charset |-> charset, collate |-> Collate(charset),
                    shardRowId |-> 0, autoIncID |-> 0, numberOfRows |-> 0]
      cat1 == [cat EXCEPT !.uuid = cat.uuid + TableColumns + 1,
                          !.col = cat.col \o newCols,
                          !.lists = Append(cat.lists, [i \in 1..TableColumns |-> base + i]),
                          !.arrs = Append(cat.arrs, <<>>),
                          !.tbl = Append(cat.tbl, tableInfo)]
  IN Prepared(cat1, Task(ddlAddTable, Len(cat.tbl) + 1, NULL, NULL, NoArg))

\* an add-table applier that registers nothing
addTableInfo_Unregistered(cat, task) == Applied(cat, NoErr)

addTableInfo(cat, task) ==
  Applied([cat EXCEPT !.tables = MapPut(cat.tables, cat.tbl[task.tblInfo].name, task.tblInfo)],
          NoErr)

prepareRenameTable(cat, table) ==
  IF table = NULL THEN Prepared(cat, NoTask)
  ELSE LET newTbl == [cat.tbl[table] EXCEPT !.name = NewName(cat)]   \* newTbl := *table
           cat1 == [cat EXCEPT !.uuid = NewName(cat),
                               !.tbl = Append([cat.tbl EXCEPT ![table].deleted = TRUE], newTbl)]
       IN Prepared(cat1, Task(ddlRenameTable, table, NULL, NULL,
                              [NoArg EXCEPT !.newTbl = Len(cat.tbl) + 1]))

\* a rename that renames the registered table in place and registers it under
\* the new name without deleting the old entry
renameTableJob_InPlace(cat, task) ==
  LET table == task.tblInfo
      newName == cat.tbl[task.arg.newTbl].name
  IN IF isTableDeleted(cat, table)
     THEN Applied(cat, "table is not exists")
     ELSE Applied([cat EXCEPT !.tbl[table].name = newName,
                              !.tables = MapPut(cat.tables, newName, table)],
                  NoErr)

renameTableJob(cat, task) ==
  LET table == task.tblInfo
      newTbl == task.arg.newTbl
  IN IF isTableDeleted(cat, table)
     THEN Applied(cat, "table is not exists")
     ELSE Applied([cat EXCEPT !.tables =
                     MapPut(MapDelete(cat.tables, cat.tbl[table].name),
                            cat.tbl[newTbl].name, newTbl)],
                  NoErr)

prepareDropTable(cat, tableToDrop) ==
  IF Cardinality(DOMAIN cat.tables) <= 1 \/ tableToDrop = NULL
  THEN Prepared(cat, NoTask)
  ELSE Prepared([cat EXCEPT !.tbl[tableToDrop].deleted = TRUE],
                Task(ddlDropTable, tableToDrop, NULL, NULL, NoArg))

\* a drop that leaves the table in c.tables
dropTableJob_KeepsTable(cat, task) ==
  IF isTableDeleted(cat, task.tblInfo)
  THEN Applied(cat, "table is not exists")
  ELSE Applied(cat, NoErr)

dropTableJob(cat, task) ==
  IF isTableDeleted(cat, task.tblInfo)
  THEN Applied(cat, "table is not exists")
  ELSE Applied([cat EXCEPT !.tables = MapDelete(cat.tables, cat.tbl[task.tblInfo].name)],
               NoErr)

\* table.pickupRandomColumns(): the column lists it can return: here none, or
\* one live column
pickupRandomColumns(cat, table) ==
  {<<>>} \cup {<<x>> : x \in Range(filterColumns(cat, table))}

prepareCreateView(cat, table, columns) ==
  IF table = NULL \/ Len(columns) = 0 THEN Prepared(cat, NoTask)
  ELSE LET view == [name |-> NewName(cat), id |-> NULL, columns |-> columns, table |-> table]
           cat1 == [cat EXCEPT !.uuid = NewName(cat), !.view = Append(cat.view, view)]
       IN Prepared(cat1, Task(ddlCreateView, NULL, NULL, Len(cat.view) + 1, NoArg))

createViewJob(cat, task) ==
  Applied([cat EXCEPT !.views = MapPut(cat.views, cat.view[task.viewInfo].name, task.viewInfo)],
          NoErr)


\* ------------------------------------------------------------------------
\* Indexes
\* ------------------------------------------------------------------------
\* table.isColumnDeleted(column), c.isColumnDeleted(column, table): no column
\* of the table carries the column's name
isColumnDeleted(cat, x, t) ==
  FindFrom(ColumnNames(cat, t), cat.col[x].name, 1) = -1

\* c.isIndexDeleted(index, table): no index of the table carries the index's name
isIndexDeleted(cat, x, t) ==
  FindFrom(IndexNames(cat, t), cat.idx[x].name, 1) = -1

\* the columns among cols (a sequence) that can be indexed, in order
RECURSIVE FilterCanBeIndex(_, _)
FilterCanBeIndex(cat, cols) ==
  IF cols = <<>> THEN <<>>
  ELSE IF canBeIndex(cat, Head(cols)) THEN <<Head(cols)>> \o FilterCanBeIndex(cat, Tail(cols))
  ELSE FilterCanBeIndex(cat, Tail(cols))

ddlTestIndexStrategySingleColumnAtBeginning == "SingleColumnAtBeginning"
ddlTestIndexStrategySingleColumnAtEnd == "SingleColumnAtEnd"
ddlTestIndexStrategySingleColumnRandom == "SingleColumnRandom"
ddlTestIndexStrategyMultipleColumnRandom == "MultipleColumnRandom"

\* perm: the positions (from 0) drawn by rand.Intn / rand.Perm(...)[:n]
prepareAddIndex(cat, table, strategy, perm) ==
  IF table = NULL THEN Prepared(cat, NoTask)
  ELSE
    LET cols == Columns(cat, table)
        picked ==
          IF strategy = ddlTestIndexStrategySingleColumnAtBeginning THEN <<cols[1]>>
          ELSE IF strategy = ddlTestIndexStrategySingleColumnAtEnd THEN <<cols[Len(cols)]>>
          ELSE IF strategy = ddlTestIndexStrategySingleColumnRandom THEN <<cols[perm[1] + 1]>>
          ELSE [i \in DOMAIN perm |-> cols[perm[i] + 1]]
        single == strategy # ddlTestIndexStrategyMultipleColumnRandom
        indexColumns == FilterCanBeIndex(cat, picked)
        signature == [i \in DOMAIN indexColumns |-> cat.col[indexColumns[i]].name]
        index == [name |-> NewName(cat), signature |-> signature, columns |-> indexColumns]
        duplicate == \E i \in DOMAIN Indexes(cat, table) :
                        cat.idx[Indexes(cat, table)[i]].signature = signature
        cat1 == [cat EXCEPT !.uuid = NewName(cat), !.idx = Append(cat.idx, index)]
    IN IF Len(indexColumns) = 0 \/ duplicate THEN Prepared(cat, NoTask)
       ELSE Prepared(cat1, Task(ddlAddIndex, table, NULL, NULL,
                                [NoArg EXCEPT !.index = Len(cat.idx) + 1]))

\* column.indexReferences++ for each column of the sequence
RECURSIVE IncReferences(_, _)
IncReferences(cat, cols) ==
  IF cols = <<>> THEN cat
  ELSE IncReferences([cat EXCEPT !.col[Head(cols)].indexReferences = @ + 1], Tail(cols))

addIndexJob(cat, task) ==
  LET index == task.arg.index
      tblInfo == task.tblInfo
      columns == cat.idx[index].columns
  IN IF isTableDeleted(cat, tblInfo) THEN Applied(cat, "table is not exists")
     ELSE IF \E i \in DOMAIN columns : isColumnDeleted(cat, columns[i], tblInfo)
     THEN Applied(cat, "add index error, column is deleted")
     ELSE Applied(IncReferences(AppendIndex(cat, tblInfo, index), columns), NoErr)

prepareRenameIndex(cat, table, loc) ==
  IF table = NULL THEN Prepared(cat, NoTask)
  ELSE IF cat.tbl[table].idxLen = 0 THEN Prepared(cat, NoTask)
  ELSE Prepared([cat EXCEPT !.uuid = NewName(cat)],
                Task(ddlRenameIndex, table, NULL, NULL,
                     [NoArg EXCEPT !.preIndex = loc, !.newIndex = NewName(cat),
                                   !.index = Indexes(cat, table)[loc + 1]]))

\* "panic" is the run-time panic of an index out of range
renameIndexJob(cat, task) ==
  LET table == task.tblInfo
      arg == task.arg
  IN IF isTableDeleted(cat, table) THEN Applied(cat, "table is not exists")
     ELSE IF arg.preIndex >= cat.tbl[table].idxLen THEN Applied(cat, "panic")
     ELSE IF isIndexDeleted(cat, Indexes(cat, table)[arg.preIndex + 1], table)
     THEN Applied(cat, "index is not exists")
     ELSE Applied([cat EXCEPT !.idx[Indexes(cat, table)[arg.preIndex + 1]].name = arg.newIndex],
                  NoErr)

prepareDropIndex(cat, table, indexToDropIndex) ==
  IF table = NULL THEN Prepared(cat, NoTask)
  ELSE IF cat.tbl[table].idxLen = 0 THEN Prepared(cat, NoTask)
  ELSE Prepared(cat, Task(ddlDropIndex, table, NULL, NULL,
                          [NoArg EXCEPT !.index = Indexes(cat, table)[indexToDropIndex + 1]]))

\* the loop "column.indexReferences--; if column.indexReferences < 0 { return err }":
\* the decrements made before the failing one stay
RECURSIVE DecReferences(_, _)
DecReferences(cat, cols) ==
  IF cols = <<>> THEN Applied(cat, NoErr)
  ELSE LET cat1 == [cat EXCEPT !.col[Head(cols)].indexReferences = @ - 1]
       IN IF cat1.col[Head(cols)].indexReferences < 0
          THEN Applied(cat1, "Unexpected index reference")
          ELSE DecReferences(cat1, Tail(cols))

dropIndexJob(cat, task) ==
  LET index == task.arg.index
      tblInfo == task.tblInfo
      iOfDropIndex == FindFrom(IndexNames(cat, tblInfo), cat.idx[index].name, 1)
      dec == DecReferences(cat, cat.idx[index].columns)
  IN IF isTableDeleted(cat, tblInfo) THEN Applied(cat, "table is not exists")
     ELSE IF iOfDropIndex = -1 THEN Applied(cat, "index is not exists")
     ELSE IF dec.err # NoErr THEN dec
     ELSE Applied(RemoveIndexAt(dec.c, tblInfo, iOfDropIndex), NoErr)


\* ------------------------------------------------------------------------
\* Columns
\* ------------------------------------------------------------------------
\* The rows of a column exist for the DML workload, which is not modelled:
\* column.rows is left out and numberOfRows changes by truncate only.

\* table.pickupRandomColumn(): the (index, column) pairs it can return: a
\* column that is not tombstoned with its position (from 0) in table.columns,
\* or (-1, nil) when there is none
pickupRandomColumn(cat, t) ==
  LET cols == Columns(cat, t)
      live == {i \in DOMAIN cols : ~cat.col[cols[i]].deleted}
  IN IF live = {} THEN {<<-1, NULL>>} ELSE {<<i - 1, cols[i]>> : i \in live}

\* getRandDDLTestColumn(): a fresh column
prepareAddColumn(cat, table, strategy, position) ==
  IF table = NULL THEN Prepared(cat, NoTask)
  ELSE
    LET newColumn == NewColumn(NewName(cat), KindInt, FALSE)
        insertAfterPosition == IF strategy = ddlTestAddDropColumnStrategyAtRandom
                               THEN position ELSE -1
        arg == [NoArg EXCEPT !.column = Len(cat.col) + 1, !.strategy = strategy,
                  !.insertAfterColumn = IF insertAfterPosition # -1
                                        THEN Columns(cat, table)[insertAfterPosition + 1]
                                        ELSE NULL]
        cat1 == [cat EXCEPT !.uuid = NewName(cat), !.col = Append(cat.col, newColumn)]
    IN Prepared(cat1, Task(ddlAddColumn, table, NULL, NULL, arg))

\* an add-column applier that puts the column in front of X instead of behind it
addColumnJob_BeforeX(cat, task) ==
  LET jobArg == task.arg
      table == task.tblInfo
      l == cat.tbl[table].columns
      newColumn == jobArg.column
      insertAfterPosition ==
        FindFrom(ColumnNames(cat, table), cat.col[jobArg.insertAfterColumn].name, 1)
  IN IF isTableDeleted(cat, table) THEN Applied(cat, "table is not exists")
     ELSE IF jobArg.strategy = ddlTestAddDropColumnStrategyAtBeginning
     THEN Applied([cat EXCEPT !.lists[l] = ListInsert(@, 0, newColumn)], NoErr)
     ELSE IF jobArg.strategy = ddlTestAddDropColumnStrategyAtEnd
     THEN Applied([cat EXCEPT !.lists[l] = Append(@, newColumn)], NoErr)
     ELSE IF insertAfterPosition = -1
     THEN Applied(cat, "insert column after column, column is not exists")
     ELSE Applied([cat EXCEPT !.lists[l] = ListInsert(@, insertAfterPosition, newColumn)],
                  NoErr)

addColumnJob(cat, task) ==
  LET jobArg == task.arg
      table == task.tblInfo
      l == cat.tbl[table].columns
      newColumn == jobArg.column
      insertAfterPosition ==
        FindFrom(ColumnNames(cat, table), cat.col[jobArg.insertAfterColumn].name, 1)
  IN IF isTableDeleted(cat, table) THEN Applied(cat, "table is not exists")
     ELSE IF jobArg.strategy = ddlTestAddDropColumnStrategyAtBeginning
     THEN Applied([cat EXCEPT !.lists[l] = ListInsert(@, 0, newColumn)], NoErr)
     ELSE IF jobArg.strategy = ddlTestAddDropColumnStrategyAtEnd
     THEN Applied([cat EXCEPT !.lists[l] = Append(@, newColumn)], NoErr)
     ELSE IF insertAfterPosition = -1
     THEN Applied(cat, "insert column after column, column is not exists")
     ELSE Applied([cat EXCEPT !.lists[l] = ListInsert(@, insertAfterPosition + 1, newColumn)],
                  NoErr)

\* generateRandModifiedColumn(col, renameCol): a copy of the column, under a
\* fresh name when renameCol
generateRandModifiedColumn(cat, x, renameCol) ==
  IF renameCol THEN [cat.col[x] EXCEPT !.name = NewName(cat)] ELSE cat.col[x]

\* pick: what pickupRandomColumn returned; rename: rand.Float64() > 0.5;
\* insertPosition: rand.Intn(table.columns.Size())
prepareModifyColumn(cat, table, pick, rename, strategy, insertPosition) ==
  IF table = NULL THEN Prepared(cat, NoTask)
  ELSE
    LET origColIndex == pick[1]
        origColumn == pick[2]
        modifiedColumn == generateRandModifiedColumn(cat, origColumn, rename)
        insertAfterColumn == IF strategy = ddlTestAddDropColumnStrategyAtRandom
                             THEN Columns(cat, table)[insertPosition + 1] ELSE NULL
        arg == [NoArg EXCEPT !.origColumnIndex = origColIndex, !.origColumn = origColumn,
                             !.column = Len(cat.col) + 1, !.strategy = strategy,
                             !.insertAfterColumn = insertAfterColumn]
        cat1 == [cat EXCEPT !.uuid = IF rename THEN NewName(cat) ELSE @,
                            !.col = Append(IF rename THEN [cat.col EXCEPT ![origColumn].renamed = TRUE]
                                           ELSE cat.col,
                                           modifiedColumn)]
    IN IF origColumn = NULL THEN Prepared(cat, NoTask)
       ELSE IF ~canBeModified(cat, origColumn) THEN Prepared(cat, NoTask)
       ELSE IF rename /\ hasGenerateCol(cat, origColumn) THEN Prepared(cat, NoTask)
       ELSE Prepared(cat1, Task(ddlModifyColumn, table, NULL, NULL, arg))

modifyColumnJob(cat, task) ==
  LET table == task.tblInfo
      arg == task.arg
      l == cat.tbl[table].columns
      removed == ListRemove(cat.lists[l], arg.origColumnIndex)
      removedNames == [i \in DOMAIN removed |-> cat.col[removed[i]].name]
      found == FindFrom(removedNames, cat.col[arg.insertAfterColumn].name, 1)
      insertPosition == IF found = -1 THEN arg.origColumnIndex - 1 ELSE found
  IN IF isTableDeleted(cat, table) THEN Applied(cat, "table is not exists")
     ELSE IF isColumnDeleted(cat, arg.origColumn, table)
     THEN Applied(cat, "column is not exists")
     ELSE IF arg.strategy = ddlTestAddDropColumnStrategyAtBeginning
     THEN Applied([cat EXCEPT !.lists[l] = ListInsert(removed, 0, arg.column)], NoErr)
     ELSE IF arg.strategy = ddlTestAddDropColumnStrategyAtEnd
     THEN Applied([cat EXCEPT !.lists[l] = Append(removed, arg.column)], NoErr)
     ELSE Applied([cat EXCEPT !.lists[l] = ListInsert(removed, insertPosition + 1, arg.column)],
                  NoErr)

\* a drop-column preparer without the primary-key test
prepareDropColumn_NoPrimaryKeyTest(cat, table, strategy, position) ==
  IF table = NULL THEN Prepared(cat, NoTask)
  ELSE
    LET columnsSnapshot == filterColumns(cat, table)
        columnToDropIndex ==
          IF strategy = ddlTestAddDropColumnStrategyAtBeginning THEN 0
          ELSE IF strategy = ddlTestAddDropColumnStrategyAtEnd THEN Len(Columns(cat, table)) - 1
          ELSE position
        columnToDrop == Columns(cat, table)[columnToDropIndex + 1]
    IN IF Len(columnsSnapshot) <= 1 THEN Prepared(cat, NoTask)
       ELSE IF hasGenerateCol(cat, columnToDrop) THEN Prepared(cat, NoTask)
       ELSE IF cat.col[columnToDrop].indexReferences > 0 THEN Prepared(cat, NoTask)
       ELSE Prepared([cat EXCEPT !.col[columnToDrop].deleted = TRUE],
                     Task(ddlDropColumn, table, NULL, NULL,
                          [NoArg EXCEPT !.column = columnToDrop, !.strategy = strategy]))

\* position: rand.Intn(table.columns.Size()), read by strategy AtRandom
prepareDropColumn(cat, table, strategy, position) ==
  IF table = NULL THEN Prepared(cat, NoTask)
  ELSE
    LET columnsSnapshot == filterColumns(cat, table)
        columnToDropIndex ==
          IF strategy = ddlTestAddDropColumnStrategyAtBeginning THEN 0
          ELSE IF strategy = ddlTestAddDropColumnStrategyAtEnd THEN Len(Columns(cat, table)) - 1
          ELSE position
        columnToDrop == Columns(cat, table)[columnToDropIndex + 1]
    IN IF Len(columnsSnapshot) <= 1 THEN Prepared(cat, NoTask)
       ELSE IF cat.col[columnToDrop].isPrimaryKey THEN Prepared(cat, NoTask)
       ELSE IF hasGenerateCol(cat, columnToDrop) THEN Prepared(cat, NoTask)
       ELSE IF cat.col[columnToDrop].indexReferences > 0 THEN Prepared(cat, NoTask)
       ELSE Prepared([cat EXCEPT !.col[columnToDrop].deleted = TRUE],
                     Task(ddlDropColumn, table, NULL, NULL,
                          [NoArg EXCEPT !.column = columnToDrop, !.strategy = strategy]))

\* col.dependenciedCols without its first element named like columnToDrop; the
\* loop "for i = range ... break" leaves i at the last element when none matches
RemoveDependencied(cat, deps, name) ==
  LET names == [i \in DOMAIN deps |-> cat.col[deps[i]].name]
      found == FindFrom(names, name, 1)
      i == IF found = -1 THEN Len(deps) - 1 ELSE found
  IN ListRemove(deps, i)

dropColumnJob(cat, task) ==
  LET jobArg == task.arg
      table == task.tblInfo
      l == cat.tbl[table].columns
      columnToDrop == jobArg.column
      dropColumnPosition == FindFrom(ColumnNames(cat, table), cat.col[columnToDrop].name, 1)
      parent == cat.col[columnToDrop].dependency
      cat1 == [cat EXCEPT !.lists[l] = ListRemove(@, dropColumnPosition)]
  IN IF isTableDeleted(cat, table) THEN Applied(cat, "table is not exists")
     ELSE IF cat.col[columnToDrop].indexReferences > 0
     THEN Applied([cat EXCEPT !.col[columnToDrop].deleted = FALSE],
                  "drop column error, column has index reference")
     ELSE IF dropColumnPosition = -1 THEN Applied(cat, "drop column, column is not exists")
     ELSE IF isGenerated(cat, columnToDrop)
     THEN Applied([cat1 EXCEPT !.col[parent].dependenciedCols =
                                  RemoveDependencied(cat, @, cat.col[columnToDrop].name)],
                  NoErr)
     ELSE Applied(cat1, NoErr)


\* ------------------------------------------------------------------------
\* Table attributes: truncate, comment, charset, shard row id, auto id, and
\* the default value of a column
\* ------------------------------------------------------------------------
prepareTruncateTable(cat, tableToTruncate) ==
  IF tableToTruncate = NULL THEN Prepared(cat, NoTask)
  ELSE Prepared(cat, Task(ddlTruncateTable, tableToTruncate, NULL, NULL, NoArg))

\* a truncate that does not look whether the table is still registered
truncateTableJob_Unchecked(cat, task) ==
  Applied([cat EXCEPT !.tbl[task.tblInfo].numberOfRows = 0], NoErr)

\* the rows of the columns are not part of the model; the row count is
truncateTableJob(cat, task) ==
  LET table == task.tblInfo
  IN IF isTableDeleted(cat, table) THEN Applied(cat, "table is not exists")
     ELSE Applied([cat EXCEPT !.tbl[table].numberOfRows = 0], NoErr)

\* newComm is a fresh uuid
prepareModifyTableComment(cat, table) ==
  IF table = NULL THEN Prepared(cat, NoTask)
  ELSE Prepared([cat EXCEPT !.uuid = NewName(cat)],
                Task(ddlModifyTableComment, table, NULL, NULL,
                     [NoArg EXCEPT !.newComm = NewName(cat)]))

modifyTableCommentJob(cat, task) ==
  LET table == task.tblInfo
  IN IF isTableDeleted(cat, table) THEN Applied(cat, "table is not exists")
     ELSE Applied([cat EXCEPT !.tbl[table].comment = task.arg.newComm], NoErr)

\* the table has a column of the BLOB family
hasBlob(cat, table) == \E i \in DOMAIN Columns(cat, table) : cat.col[Columns(cat, table)[i]].k = KindBLOB

\* charset: the charset drawn by pickupRandomCharsetAndCollate
prepareModifyTableCharsetAndCollate(cat, table, charset) ==
  IF table = NULL THEN Prepared(cat, NoTask)
  ELSE IF hasBlob(cat, table) THEN Prepared(cat, NoTask)
  ELSE IF cat.tbl[table].charset # "utf8" \/ charset # "utf8mb4" THEN Prepared(cat, NoTask)
  ELSE Prepared(cat, Task(ddlModifyTableCharsetAndCollate, table, NULL, NULL,
                          [NoArg EXCEPT !.newCharset = charset,
                                        !.newCollate = Collate(charset)]))

modifyTableCharsetAndCollateJob(cat, task) ==
  LET table == task.tblInfo
  IN IF isTableDeleted(cat, table) THEN Applied(cat, "table is not exists")
     ELSE Applied([cat EXCEPT !.tbl[table].charset = task.arg.newCharset,
                              !.tbl[table].collate = task.arg.newCollate], NoErr)

MaxShardRowIDBits == 7

\* shardRowId: the value drawn by rand.Intn(MaxShardRowIDBits)
prepareShardRowID(cat, table, shardRowId) ==
  IF table = NULL THEN Prepared(cat, NoTask)
  ELSE Prepared(cat, Task(ddlShardRowID, table, NULL, NULL,
                          [NoArg EXCEPT !.shardRowId = shardRowId]))

shardRowIDJob(cat, task) ==
  LET table == task.tblInfo
  IN IF isTableDeleted(cat, table) THEN Applied(cat, "table is not exists")
     ELSE Applied([cat EXCEPT !.tbl[table].shardRowId = task.arg.shardRowId], NoErr)

\* newAutoID: the value of table.newRandAutoID(), negative when the table
\* has no fresh auto-increment target
prepareRebaseAutoID(cat, table, newAutoID) ==
  IF table = NULL THEN Prepared(cat, NoTask)
  ELSE IF newAutoID < 0 THEN Prepared(cat, NoTask)
  ELSE Prepared(cat, Task(ddlRebaseAutoID, table, NULL, NULL, NoArg))

\* the value the server reports for auto_increment is read back into
\* table.autoIncID; the server reports 1, every table starting with 0
rebaseAutoIDJob(cat, task) ==
  LET table == task.tblInfo
  IN IF isTableDeleted(cat, table) THEN Applied(cat, "table is not exists")
     ELSE Applied([cat EXCEPT !.tbl[table].autoIncID = 1], NoErr)

\* column.canHaveDefaultValue()
canHaveDefaultValue(cat, x) == cat.col[x].k # KindBLOB

\* loc: the position (from 0) drawn among the live columns of the table;
\* the new default value is 1, every column starting with 0
prepareSetDefaultValue(cat, table, loc) ==
  IF table = NULL THEN Prepared(cat, NoTask)
  ELSE LET columns == filterColumns(cat, table)
       IN IF Len(columns) = 0 THEN Prepared(cat, NoTask)
          ELSE IF ~canHaveDefaultValue(cat, columns[loc + 1]) THEN Prepared(cat, NoTask)
          ELSE Prepared(cat, Task(ddlSetDefaultValue, table, NULL, NULL,
                                  [NoArg EXCEPT !.columnIndex = loc,
                                                !.column = columns[loc + 1],
                                                !.newDefaultValue = 1]))

\* a set-default-value that does not look whether its column is still there
setDefaultValueJob_ColumnUnchecked(cat, task) ==
  LET table == task.tblInfo
      arg == task.arg
      cols == Columns(cat, table)
  IN IF isTableDeleted(cat, table) THEN Applied(cat, "table is not exists")
     ELSE IF arg.columnIndex >= Len(cols) THEN Applied(cat, "panic")
     ELSE Applied([cat EXCEPT !.col[cols[arg.columnIndex + 1]].defaultValue =
                                arg.newDefaultValue], NoErr)

\* getColumnFromArrayList panics on a position past the end of the list
setDefaultValueJob(cat, task) ==
  LET table == task.tblInfo
      arg == task.arg
      cols == Columns(cat, table)
  IN IF isTableDeleted(cat, table) THEN Applied(cat, "table is not exists")
     ELSE IF isColumnDeleted(cat, arg.column, table)
     THEN Applied(cat, "column is not exists")
     ELSE IF arg.columnIndex >= Len(cols) THEN Applied(cat, "panic")
     ELSE Applied([cat EXCEPT !.col[cols[arg.columnIndex + 1]].defaultValue =
                                arg.newDefaultValue], NoErr)

\* ------------------------------------------------------------------------
\* The dispatcher: updateTableInfo, getHistoryDDLJobs, getSortTask
\* ------------------------------------------------------------------------
updateTableInfo(cat, task) ==
  CASE task.k = ddlCreateSchema -> createSchemaJob(cat, task)
    [] task.k = ddlDropSchema -> dropSchemaJob(cat, task)
    [] task.k = ddlAddTable -> addTableInfo(cat, task)
    [] task.k = ddlRenameTable -> renameTableJob(cat, task)
    [] task.k = ddlDropTable -> dropTableJob(cat, task)
    [] task.k = ddlCreateView -> createViewJob(cat, task)
    [] task.k = ddlAddIndex -> addIndexJob(cat, task)
    [] task.k = ddlRenameIndex -> renameIndexJob(cat, task)
    [] task.k = ddlDropIndex -> dropIndexJob(cat, task)
    [] task.k = ddlAddColumn -> addColumnJob(cat, task)
    [] task.k = ddlModifyColumn -> modifyColumnJob(cat, task)
    [] task.k = ddlDropColumn -> dropColumnJob(cat, task)
    [] task.k = ddlTruncateTable -> truncateTableJob(cat, task)
    [] task.k = ddlModifyTableComment -> modifyTableCommentJob(cat, task)
    [] task.k = ddlModifyTableCharsetAndCollate -> modifyTableCharsetAndCollateJob(cat, task)
    [] task.k = ddlShardRowID -> shardRowIDJob(cat, task)
    [] task.k = ddlRebaseAutoID -> rebaseAutoIDJob(cat, task)
    [] task.k = ddlSetDefaultValue -> setDefaultValueJob(cat, task)
    [] OTHER -> Applied(cat, "unknow ddl task")

\* ddlIgnoreError(err): nil, or one of the server's benign errors
ddlIgnoreError(err) == err \in {NoErr, "ignorable"}

\* table.debugPrintToString(): reads the table behind its receiver, so a nil
\* receiver ends the run in a nil-pointer panic
debugPrintToString(t) == IF t = NULL THEN "panic" ELSE "divergence"

\* the job id the server gives its next DDL job
NextJobID(hist) == Len(hist) + 4

\* the row the server's history keeps for a task's statement. TABLE_ID and
\* SCHEMA_ID of a created object are new server ids; those of an existing
\* object are the ids the server gave it. owner names the task, for the
\* properties only.
HistoryRow(cat, task, owner, id) ==
  [id |-> id, k |-> task.k, owner |-> owner,
   schemaName |-> IF task.schemaInfo # NULL THEN cat.sch[task.schemaInfo].name ELSE 0,
   tableName |-> IF task.tblInfo # NULL THEN cat.tbl[task.tblInfo].name
                 ELSE IF task.viewInfo # NULL THEN cat.view[task.viewInfo].name ELSE 0,
   tableID |-> IF task.k \in {ddlAddTable, ddlCreateView} THEN id
               ELSE IF task.tblInfo # NULL THEN cat.tbl[task.tblInfo].id ELSE 0,
   schemaID |-> IF task.k = ddlCreateSchema THEN id
                ELSE IF task.schemaInfo # NULL THEN cat.sch[task.schemaInfo].id ELSE 0]

Reverse(s) == [i \in DOMAIN s |-> s[Len(s) + 1 - i]]

\* the JOB_TYPE strings that mapOfDDLKind decodes
mapOfDDLKind ==
  {ddlCreateSchema, ddlAddTable, ddlAddIndex, ddlAddColumn,
   ddlDropSchema, ddlDropTable, ddlDropIndex, ddlDropColumn,
   ddlCreateView,
   ddlRenameTable, ddlRenameIndex, ddlTruncateTable, ddlShardRowID, ddlRebaseAutoID,
   ddlSetDefaultValue, ddlModifyTableComment, ddlModifyTableCharsetAndCollate,
   ddlModifyColumn}

\* a row test that looks at the id only
Skipped_ByIDOnly(cat, row) == row.id <= cat.lastDDLID

\* the two "continue" of the row loop: an id already seen, an unknown type
Skipped(cat, row) == row.id <= cat.lastDDLID \/ row.k \notin mapOfDDLKind

\* the rows that are not skipped, in the order the server returned them
RECURSIVE FilterJobs(_, _)
FilterJobs(cat, rows) ==
  IF rows = <<>> THEN <<>>
  ELSE IF Skipped(cat, Head(rows)) THEN FilterJobs(cat, Tail(rows))
  ELSE <<Head(rows)>> \o FilterJobs(cat, Tail(rows))

\* a history query that moves c.lastDDLID up to the newest job it returns
getHistoryDDLJobs_Advancing(cat, rows) ==
  LET jobs == FilterJobs(cat, rows)
      newest == CHOOSE i \in DOMAIN jobs : \A j \in DOMAIN jobs : jobs[j].id <= jobs[i].id
  IN [c |-> IF jobs = <<>> THEN cat ELSE [cat EXCEPT !.lastDDLID = jobs[newest].id],
      jobs |-> jobs]

\* rows: the result of "admin show ddl jobs"; c: the catalog the query
\* leaves behind, jobs: the list it returns
getHistoryDDLJobs(cat, rows) == [c |-> cat, jobs |-> FilterJobs(cat, rows)]

\* a match that appends its task to sortTasks twice
Matched_Twice(st, i, job) ==
  [st EXCEPT !.tasks[i].ddlID = job.id, !.sort = Append(Append(@, i), i)]

\* st = [tasks, c, sort]: the batch, the catalog and sortTasks while matching.
\* Matched(st, i, job): task i takes the job's id and joins sortTasks
Matched(st, i, job) ==
  [st EXCEPT !.tasks[i].ddlID = job.id, !.sort = Append(@, i)]

\* the inner loop of getSortTask, from task i on, for one job
RECURSIVE MatchTasks(_, _, _)
MatchTasks(job, i, st) ==
  IF i > Len(st.tasks) THEN st
  ELSE
    LET task == st.tasks[i] IN
    IF task.k = ddlAddTable /\ job.k = ddlAddTable
         /\ st.c.tbl[task.tblInfo].name = job.tableName
    THEN [Matched(st, i, job) EXCEPT !.c.tbl[task.tblInfo].id = job.tableID]
    ELSE IF task.k = ddlCreateSchema /\ job.k = ddlCreateSchema
         /\ st.c.sch[task.schemaInfo].name = job.schemaName
    THEN [Matched(st, i, job) EXCEPT !.c.sch[task.schemaInfo].id = job.schemaID]
    ELSE IF task.k = ddlCreateView /\ job.k = ddlCreateView
         /\ st.c.view[task.viewInfo].name = job.tableName
    THEN [Matched(st, i, job) EXCEPT !.c.view[task.viewInfo].id = job.tableID]
    ELSE IF task.k # ddlAddTable /\ job.k = task.k
    THEN IF task.tblInfo # NULL /\ st.c.tbl[task.tblInfo].id = job.tableID
         THEN Matched(st, i, job)
         ELSE IF task.viewInfo # NULL /\ st.c.view[task.viewInfo].id = job.tableID
         THEN MatchTasks(job, i + 1, Matched(st, i, job))
         ELSE IF task.schemaInfo # NULL /\ st.c.sch[task.schemaInfo].id = job.schemaID
         THEN MatchTasks(job, i + 1, Matched(st, i, job))
         ELSE MatchTasks(job, i + 1, st)
    ELSE MatchTasks(job, i + 1, st)

\* the outer loop of getSortTask, from job j on
RECURSIVE MatchJobs(_, _, _)
MatchJobs(jobs, j, st) ==
  IF j > Len(jobs) THEN st
  ELSE LET st1 == MatchTasks(jobs[j], 1, st)
       IN IF Len(st1.sort) = Len(st1.tasks) THEN st1 ELSE MatchJobs(jobs, j + 1, st1)

\* ddlJobTasks.Less
Less(ts, i, j) == ts[i].ddlID < ts[j].ddlID

\* sort.Sort(ddlJobTasks(sortTasks)): for the short slices of a batch the
\* library sorts by insertion
RECURSIVE InsertSorted(_, _, _)
InsertSorted(ts, sorted, i) ==
  IF sorted = <<>> THEN <<i>>
  ELSE IF Less(ts, i, sorted[Len(sorted)])
  THEN Append(InsertSorted(ts, SubSeq(sorted, 1, Len(sorted) - 1), i), sorted[Len(sorted)])
  ELSE Append(sorted, i)

RECURSIVE SortByDDLID(_, _)
SortByDDLID(ts, s) ==
  IF s = <<>> THEN <<>>
  ELSE InsertSorted(ts, SortByDDLID(ts, SubSeq(s, 1, Len(s) - 1)), s[Len(s)])

\* a getSortTask that never writes c.lastDDLID
getSortTask_KeepsLastDDLID(cat, batch, rows) ==
  LET q == getHistoryDDLJobs(cat, rows)
      st == MatchJobs(q.jobs, 1, [tasks |-> batch, c |-> q.c, sort |-> <<>>])
  IN IF Len(st.sort) # Len(batch)
     THEN [err |-> "linearization", tasks |-> st.tasks, c |-> st.c, sort |-> st.sort]
     ELSE [err |-> NoErr, tasks |-> st.tasks, c |-> st.c,
           sort |-> SortByDDLID(st.tasks, st.sort)]

\* getSortTask(db, tasks): [err, tasks, c, sort]
getSortTask(cat, batch, rows) ==
  LET q == getHistoryDDLJobs(cat, rows)
      jobs == q.jobs
      st == MatchJobs(jobs, 1, [tasks |-> batch, c |-> q.c, sort |-> <<>>])
      sorted == SortByDDLID(st.tasks, st.sort)
  IN IF Len(st.sort) # Len(batch)
     THEN [err |-> "linearization", tasks |-> st.tasks, c |-> st.c, sort |-> st.sort]
     ELSE [err |-> NoErr, tasks |-> st.tasks, sort |-> sorted,
           c |-> IF Len(sorted) > 0
                 THEN [st.c EXCEPT !.lastDDLID = st.tasks[sorted[Len(sorted)]].ddlID]
                 ELSE st.c]


\* ------------------------------------------------------------------------
\* Actions: the preparers, called by the generator while no batch is running
\* ------------------------------------------------------------------------
\* a preparer ran: the catalog it left, and "taskCh <- task" if it made one
Emit(r) ==
  /\ pc = "idle"
  /\ nprep < MaxTasks
  /\ c' = r.c
  /\ IF r.task.k = "none"
     THEN UNCHANGED <<taskCh, nprep>>
     ELSE /\ taskCh' = Append(taskCh, [r.task EXCEPT !.seq = nprep + 1])
          /\ nprep' = nprep + 1
  /\ UNCHANGED <<pc, tasks, running, sortTasks, applyIdx, result, lerr, history, locks>>

Positions(t) == 0..(Len(Columns(c, t)) - 1)

CreateSchema == Emit(prepareCreateSchema(c))

DropSchema == \E schema \in pickupRandomSchema(c) : Emit(prepareDropSchema(c, schema))

AddTable ==
  \E primaryKeys \in {{}, {1}}, charset \in Charsets :
    Emit(prepareAddTable(c, primaryKeys, charset))

RenameTable == \E table \in pickupRandomTable(c) : Emit(prepareRenameTable(c, table))

DropTable == \E table \in pickupRandomTable(c) : Emit(prepareDropTable(c, table))

CreateView ==
  \E table \in pickupRandomTable(c) :
    \E columns \in (IF table = NULL THEN {<<>>} ELSE pickupRandomColumns(c, table)) :
      Emit(prepareCreateView(c, table, columns))

\* rand.Perm(n)[:k] for k in 1..n: the sequences of distinct positions
PermPrefixes(n) ==
  {s \in UNION {[1..k -> 0..(n - 1)] : k \in 1..n} :
     \A i, j \in DOMAIN s : i # j => s[i] # s[j]}

\* the (strategy, positions) draws of prepareAddIndex on a table
IndexDraws(t) ==
  IF t = NULL THEN {<<ddlTestIndexStrategySingleColumnAtBeginning, <<>>>>}
  ELSE {<<ddlTestIndexStrategySingleColumnAtBeginning, <<>>>>,
        <<ddlTestIndexStrategySingleColumnAtEnd, <<>>>>}
       \cup {<<ddlTestIndexStrategySingleColumnRandom, <<p>>>> : p \in Positions(t)}
       \cup {<<ddlTestIndexStrategyMultipleColumnRandom, perm>> :
               perm \in PermPrefixes(Len(Columns(c, t)))}

\* the (strategy, position) draws of the column preparers on a table
ColumnDraws(t) ==
  IF t = NULL THEN {<<ddlTestAddDropColumnStrategyAtBeginning, 0>>}
  ELSE {<<ddlTestAddDropColumnStrategyAtBeginning, 0>>,
        <<ddlTestAddDropColumnStrategyAtEnd, 0>>}
       \cup {<<ddlTestAddDropColumnStrategyAtRandom, p>> : p \in Positions(t)}

\* rand.Intn(len(table.indexes))
IndexPositions(t) ==
  IF t = NULL \/ c.tbl[t].idxLen = 0 THEN {0} ELSE 0..(c.tbl[t].idxLen - 1)

AddIndex ==
  \E table \in pickupRandomTable(c) :
    \E d \in IndexDraws(table) : Emit(prepareAddIndex(c, table, d[1], d[2]))

RenameIndex ==
  \E table \in pickupRandomTable(c) :
    \E loc \in IndexPositions(table) : Emit(prepareRenameIndex(c, table, loc))

DropIndex ==
  \E table \in pickupRandomTable(c) :
    \E i \in IndexPositions(table) : Emit(prepareDropIndex(c, table, i))

AddColumn ==
  \E table \in pickupRandomTable(c) :
    \E d \in ColumnDraws(table) : Emit(prepareAddColumn(c, table, d[1], d[2]))

ModifyColumn ==
  \E table \in pickupRandomTable(c) :
    \E pick \in (IF table = NULL THEN {<<-1, NULL>>} ELSE pickupRandomColumn(c, table)) :
      \E rename \in BOOLEAN :
        \E d \in ColumnDraws(table) :
          Emit(prepareModifyColumn(c, table, pick, rename, d[1], d[2]))

DropColumn ==
  \E table \in pickupRandomTable(c) :
    \E d \in ColumnDraws(table) : Emit(prepareDropColumn(c, table, d[1], d[2]))

TruncateTable == \E table \in pickupRandomTable(c) : Emit(prepareTruncateTable(c, table))

ModifyTableComment ==
  \E table \in pickupRandomTable(c) : Emit(prepareModifyTableComment(c, table))

ModifyTableCharsetAndCollate ==
  \E table \in pickupRandomTable(c) :
    \E charset \in Charsets : Emit(prepareModifyTableCharsetAndCollate(c, table, charset))

\* the draws of rand.Intn(MaxShardRowIDBits) the model follows: both ends
ShardRowIDDraws == {0, MaxShardRowIDBits - 1}

ShardRowID ==
  \E table \in pickupRandomTable(c) :
    \E shardRowId \in ShardRowIDDraws : Emit(prepareShardRowID(c, table, shardRowId))

RebaseAutoID ==
  \E table \in pickupRandomTable(c) :
    \E newAutoID \in {-1, 1} : Emit(prepareRebaseAutoID(c, table, newAutoID))

\* the draws of rand.Intn(len(columns)) over the live columns of t
LivePositions(t) ==
  IF t = NULL THEN {0}
  ELSE IF Len(filterColumns(c, t)) = 0 THEN {0}
  ELSE 0..(Len(filterColumns(c, t)) - 1)

SetDefaultValue ==
  \E table \in pickupRandomTable(c) :
    \E loc \in LivePositions(table) : Emit(prepareSetDefaultValue(c, table, loc))

\* ------------------------------------------------------------------------
\* Actions: execParaDDLSQL
\* ------------------------------------------------------------------------
\* what the server can answer to a statement: err is db.Exec's error, row
\* tells whether the statement became a DDL job of the history
ServerOutcomes ==
  {[err |-> NoErr, row |-> TRUE], [err |-> "err", row |-> TRUE], [err |-> "err", row |-> FALSE],
   [err |-> "ignorable", row |-> TRUE], [err |-> "ignorable", row |-> FALSE]}

\* execParaDDLSQL(taskCh, num) up to wg.Wait(): num tasks are received and a
\* worker is started for each; num = 0 returns nil at once
ParaDrain ==
  /\ pc = "idle"
  /\ \E num \in 0..Len(taskCh) :
       IF num = 0
       THEN /\ result' = "nil"
            /\ UNCHANGED <<c, taskCh, pc, tasks, running, sortTasks, applyIdx, lerr, history, nprep, locks>>
       ELSE /\ tasks' = SubSeq(taskCh, 1, num)
            /\ taskCh' = SubSeq(taskCh, num + 1, Len(taskCh))
            /\ running' = 1..num
            /\ pc' = "workers"
            /\ sortTasks' = <<>>
            /\ applyIdx' = 1
            /\ result' = "running"
            /\ lerr' = NoErr
            /\ UNCHANGED <<c, history, nprep, locks>>

\* one worker: db.Exec(task.sql), and task.err = err unless ddlIgnoreError(err)
ParaWorker ==
  /\ pc = "workers"
  /\ \E i \in running, o \in ServerOutcomes :
       /\ history' = IF o.row
                     THEN Append(history, HistoryRow(c, tasks[i], tasks[i].seq, NextJobID(history)))
                     ELSE history
       /\ tasks' = IF ddlIgnoreError(o.err) THEN [tasks EXCEPT ![i].exec = o.err]
                   ELSE [tasks EXCEPT ![i].exec = o.err, ![i].err = o.err]
       /\ running' = running \ {i}
  /\ UNCHANGED <<c, taskCh, pc, sortTasks, applyIdx, result, lerr, nprep, locks>>

\* getSortTask called without waiting for the workers
ParaSort_NoWait ==
  /\ pc = "workers"
  /\ \E newestFirst \in BOOLEAN :
       LET rows == IF newestFirst THEN Reverse(history) ELSE history
           r == getSortTask(c, tasks, rows)
       IN /\ c' = r.c
          /\ tasks' = r.tasks
          /\ sortTasks' = r.sort
          /\ IF r.err # NoErr
             THEN /\ pc' = IF ddlIgnoreError(r.err) THEN "idle" ELSE "aborted"
                  /\ result' = IF ddlIgnoreError(r.err) THEN "nil" ELSE r.err
             ELSE /\ pc' = "apply"
                  /\ result' = "running"
  /\ UNCHANGED <<taskCh, running, applyIdx, lerr, history, nprep, locks>>

\* after wg.Wait(): getSortTask; its error ends the call
ParaSort ==
  /\ pc = "workers"
  /\ running = {}
  /\ \E newestFirst \in BOOLEAN :
       LET rows == IF newestFirst THEN Reverse(history) ELSE history
           r == getSortTask(c, tasks, rows)
       IN /\ c' = r.c
          /\ tasks' = r.tasks
          /\ sortTasks' = r.sort
          /\ IF r.err # NoErr
             THEN /\ pc' = IF ddlIgnoreError(r.err) THEN "idle" ELSE "aborted"
                  /\ result' = IF ddlIgnoreError(r.err) THEN "nil" ELSE r.err
             ELSE /\ pc' = "apply"
                  /\ result' = "running"
  /\ UNCHANGED <<taskCh, running, applyIdx, lerr, history, nprep, locks>>

\* one round of the replay loop: updateTableInfo(task), then the comparison of
\* the local error with task.err. applyIdx - 1 appliers have run.
ParaReplay ==
  /\ pc = "apply"
  /\ applyIdx <= Len(sortTasks)
  /\ LET task == tasks[sortTasks[applyIdx]]
         r == updateTableInfo(c, task)
         differ == (r.err = NoErr /\ task.err # NoErr) \/ (r.err # NoErr /\ task.err = NoErr)
     IN /\ c' = r.c
        /\ lerr' = r.err
        /\ applyIdx' = applyIdx + 1
        /\ IF r.err = "panic"
           THEN pc' = "aborted" /\ result' = "panic"
           ELSE IF differ
           THEN IF r.err # NoErr /\ ddlIgnoreError(r.err)
                THEN pc' = "idle" /\ result' = "nil"
                ELSE pc' = "aborted" /\ result' = debugPrintToString(task.tblInfo)
           ELSE IF applyIdx = Len(sortTasks)
           THEN pc' = "idle" /\ result' = "nil"
           ELSE pc' = "apply" /\ result' = "running"
  /\ UNCHANGED <<taskCh, tasks, running, sortTasks, history, nprep, locks>>

Dispatch == ParaDrain \/ ParaWorker \/ ParaSort \/ ParaReplay

\* ------------------------------------------------------------------------
\* Specification of the schema, table and view operations
\* ------------------------------------------------------------------------
\* one schema and two tables of two columns each, made by earlier batches
TableCatalog ==
  [uuid |-> 7, lastDDLID |-> 3,
   schemas |-> MapPut(EmptyMap, 1, 1),
   tables |-> MapPut(MapPut(EmptyMap, 2, 1), 3, 2),
   views |-> EmptyMap,
   sch |-> <<[name |-> 1, id |-> 1, deleted |-> FALSE]>>,
   tbl |-> <<[name |-> 2, id |-> 2, columns |-> 1, idxArr |-> 1, idxLen |-> 0, deleted |-> FALSE,
      comment |-> 0, charset |-> "utf8", collate |-> "utf8_bin", shardRowId |-> 0,
      autoIncID |-> 0, numberOfRows |-> 0],
             [name |-> 3, id |-> 3, columns |-> 2, idxArr |-> 2, idxLen |-> 0, deleted |-> FALSE,
      comment |-> 0, charset |-> "utf8", collate |-> "utf8_bin", shardRowId |-> 0,
      autoIncID |-> 0, numberOfRows |-> 0]>>,
   lists |-> << <<1, 2>>, <<3, 4>> >>,
   arrs |-> << <<>>, <<>> >>,
   col |-> <<NewColumn(4, KindInt, TRUE), NewColumn(5, KindInt, FALSE),
             NewColumn(6, KindInt, FALSE), NewColumn(7, KindInt, FALSE)>>,
   idx |-> <<>>,
   view |-> <<>>]

InitWith(cat) ==
  /\ c = cat
  /\ taskCh = <<>>
  /\ pc = "idle"
  /\ tasks = <<>>
  /\ running = {}
  /\ sortTasks = <<>>
  /\ applyIdx = 1
  /\ result = "none"
  /\ lerr = NoErr
  /\ history = <<>>
  /\ nprep = 0
  /\ locks = [p \in Procs |-> NotLocking]

Init == InitWith(TableCatalog)

Next ==
  \/ CreateSchema
  \/ DropSchema
  \/ AddTable
  \/ RenameTable
  \/ DropTable
  \/ CreateView
  \/ Dispatch

Spec == Init /\ [][Next]_vars

\* ------------------------------------------------------------------------
\* Specification of the index operations
\* ------------------------------------------------------------------------
\* one table of two columns with an index on the second one, made by earlier
\* batches
IndexCatalog ==
  [uuid |-> 6, lastDDLID |-> 3,
   schemas |-> MapPut(EmptyMap, 1, 1),
   tables |-> MapPut(EmptyMap, 2, 1),
   views |-> EmptyMap,
   sch |-> <<[name |-> 1, id |-> 1, deleted |-> FALSE]>>,
   tbl |-> <<[name |-> 2, id |-> 2, columns |-> 1, idxArr |-> 1, idxLen |-> 1, deleted |-> FALSE,
      comment |-> 0, charset |-> "utf8", collate |-> "utf8_bin", shardRowId |-> 0,
      autoIncID |-> 0, numberOfRows |-> 0]>>,
   lists |-> << <<1, 2>> >>,
   arrs |-> << <<1>> >>,
   col |-> <<NewColumn(4, KindInt, TRUE),
             [NewColumn(5, KindInt, FALSE) EXCEPT !.indexReferences = 1]>>,
   idx |-> <<[name |-> 6, signature |-> <<5>>, columns |-> <<2>>]>>,
   view |-> <<>>]

InitIndex == InitWith(IndexCatalog)

NextIndex ==
  \/ AddIndex
  \/ RenameIndex
  \/ DropIndex
  \/ RenameTable
  \/ Dispatch

SpecIndex == InitIndex /\ [][NextIndex]_vars

\* ------------------------------------------------------------------------
\* Specification of drop column
\* ------------------------------------------------------------------------
\* a table with a primary-key column, an indexed column, a column with a
\* generated column depending on it, the generated column and a plain column;
\* and a table of two plain columns
DropColumnCatalog ==
  [uuid |-> 11, lastDDLID |-> 3,
   schemas |-> MapPut(EmptyMap, 1, 1),
   tables |-> MapPut(MapPut(EmptyMap, 2, 1), 3, 2),
   views |-> EmptyMap,
   sch |-> <<[name |-> 1, id |-> 1, deleted |-> FALSE]>>,
   tbl |-> <<[name |-> 2, id |-> 2, columns |-> 1, idxArr |-> 1, idxLen |-> 1, deleted |-> FALSE,
      comment |-> 0, charset |-> "utf8", collate |-> "utf8_bin", shardRowId |-> 0,
      autoIncID |-> 0, numberOfRows |-> 0],
             [name |-> 3, id |-> 3, columns |-> 2, idxArr |-> 2, idxLen |-> 0, deleted |-> FALSE,
      comment |-> 0, charset |-> "utf8", collate |-> "utf8_bin", shardRowId |-> 0,
      autoIncID |-> 0, numberOfRows |-> 0]>>,
   lists |-> << <<1, 2, 3, 4, 5>>, <<6, 7>> >>,
   arrs |-> << <<1>>, <<>> >>,
   col |-> <<NewColumn(4, KindInt, TRUE),
             [NewColumn(5, KindInt, FALSE) EXCEPT !.indexReferences = 1],
             [NewColumn(6, KindInt, FALSE) EXCEPT !.dependenciedCols = <<4>>],
             [NewColumn(7, KindInt, FALSE) EXCEPT !.dependency = 3],
             NewColumn(8, KindInt, FALSE),
             NewColumn(9, KindInt, FALSE),
             NewColumn(10, KindInt, FALSE)>>,
   idx |-> <<[name |-> 11, signature |-> <<5>>, columns |-> <<2>>]>>,
   view |-> <<>>]

InitDropColumn == InitWith(DropColumnCatalog)

NextDropColumn ==
  \/ DropColumn
  \/ Dispatch

SpecDropColumn == InitDropColumn /\ [][NextDropColumn]_vars

\* ------------------------------------------------------------------------
\* Specification of add column and modify column
\* ------------------------------------------------------------------------
\* one table of three columns, made by earlier batches
ModifyCatalog ==
  [uuid |-> 6, lastDDLID |-> 3,
   schemas |-> MapPut(EmptyMap, 1, 1),
   tables |-> MapPut(EmptyMap, 2, 1),
   views |-> EmptyMap,
   sch |-> <<[name |-> 1, id |-> 1, deleted |-> FALSE]>>,
   tbl |-> <<[name |-> 2, id |-> 2, columns |-> 1, idxArr |-> 1, idxLen |-> 0, deleted |-> FALSE,
      comment |-> 0, charset |-> "utf8", collate |-> "utf8_bin", shardRowId |-> 0,
      autoIncID |-> 0, numberOfRows |-> 0]>>,
   lists |-> << <<1, 2, 3>> >>,
   arrs |-> << <<>> >>,
   col |-> <<NewColumn(4, KindInt, TRUE), NewColumn(5, KindInt, FALSE),
             NewColumn(6, KindInt, FALSE)>>,
   idx |-> <<>>,
   view |-> <<>>]

InitModify == InitWith(ModifyCatalog)

NextModify ==
  \/ AddColumn
  \/ ModifyColumn
  \/ Dispatch

SpecModify == InitModify /\ [][NextModify]_vars


\* ------------------------------------------------------------------------
\* Properties of the schema, table and view operations
\* ------------------------------------------------------------------------
\* the task whose applier the replay loop called last
LastApplied == tasks[sortTasks[applyIdx - 1]]

\* some applier of the current batch has been called
Replayed == pc # "workers" /\ applyIdx > 1

\* C1: after every applier call of the replay loop, if the local error and the
\* server error recorded on the task are both nil or both non-nil the
\* dispatcher goes on (next task, or returns nil after the last one); if
\* exactly one is nil it has returned a divergence error, whatever the task is
\* about (a table, a schema or a view).
C1_OracleCheck ==
  Replayed =>
    IF (lerr = NoErr) = (LastApplied.err = NoErr)
    THEN pc \in {"apply", "idle"} /\ result \in {"running", "nil"}
    ELSE pc = "aborted" /\ result = "divergence"

\* C5: no two registered tables share a name, and no two registered schemas
\* share a name.
C5_NameUniqueness ==
  /\ \A k1, k2 \in DOMAIN c.tables :
       k1 # k2 => c.tbl[c.tables[k1]].name # c.tbl[c.tables[k2]].name
  /\ \A k1, k2 \in DOMAIN c.schemas :
       k1 # k2 => c.sch[c.schemas[k1]].name # c.sch[c.schemas[k2]].name

\* a batch has been replayed to its end in which a rename registered the copy
\* of a table and a created schema was registered beside the first one
C5_Witness ==
  /\ pc = "idle"
  /\ result = "nil"
  /\ Replayed
  /\ \E k \in DOMAIN c.tables : c.tables[k] > 2 /\ c.tbl[c.tables[k]].id \in {2, 3}
  /\ Cardinality(DOMAIN c.schemas) = 2
  /\ Cardinality(DOMAIN c.tables) = 2

\* the registered tables no pending drop or rename has tombstoned
LiveTables(cat) == {n \in DOMAIN cat.tables : ~isDeleted(cat, cat.tables[n])}

\* this step sent a drop-table task on taskCh
DropTableEmitted ==
  /\ Len(taskCh') = Len(taskCh) + 1
  /\ taskCh'[Len(taskCh')].k = ddlDropTable

\* C8: prepareDropTable emits a drop-table task only when more than one
\* registered table is free of a tombstone, and the registered tables never
\* run out.
C8_LastTableNeverDropped ==
  [][/\ DropTableEmitted => Cardinality(LiveTables(c)) > 1
     /\ DOMAIN c.tables' # {}]_vars


\* ------------------------------------------------------------------------
\* Properties of the order oracle
\* ------------------------------------------------------------------------
\* getSortTask has returned for the batch in tasks
Sorted == pc \in {"apply", "aborted"} \/ (pc = "idle" /\ tasks # <<>>)

\* two tasks of one kind aimed at one table, one schema or one view
SameTarget(a, b) ==
  /\ a.k = b.k
  /\ \/ a.tblInfo # NULL /\ b.tblInfo # NULL /\ c.tbl[a.tblInfo].id = c.tbl[b.tblInfo].id
     \/ a.schemaInfo # NULL /\ b.schemaInfo # NULL
          /\ c.sch[a.schemaInfo].id = c.sch[b.schemaInfo].id
     \/ a.viewInfo # NULL /\ b.viewInfo # NULL
          /\ c.view[a.viewInfo].id = c.view[b.viewInfo].id

DuplicateInBatch ==
  \E i, j \in DOMAIN tasks : i < j /\ SameTarget(tasks[i], tasks[j])

\* C2: when the batch holds two tasks of identical (kind, target id), the
\* dispatcher returns a linearization failure, not success and not a
\* divergence, and runs no applier, whatever history rows the server made.
C2_LinearizationDetection ==
  (Sorted /\ DuplicateInBatch) => (result = "linearization" /\ applyIdx = 1)

\* the job ids of the history rows the server made for a task's own statement
JobIDs(task) == {history[n].id : n \in {m \in DOMAIN history : history[m].owner = task.seq}}

\* C3: when the replay loop has run the applier of a task X, it has already
\* run the applier of every task of the batch whose own DDL job has a smaller
\* job_id than the job of X.
C3_ReplayOrder ==
  Replayed =>
    \A p \in 1..(applyIdx - 1) : \A b \in DOMAIN tasks :
      (\E jb \in JobIDs(tasks[b]), jx \in JobIDs(tasks[sortTasks[p]]) : jb < jx)
        => \E q \in 1..(p - 1) : sortTasks[q] = b

\* C4: when getSortTask has returned, either it returned a linearization
\* failure, or its result is a permutation of the batch in which every task
\* carries the id of its own history row, all ids distinct.
C4_SortIsPermutation ==
  Sorted =>
    \/ result = "linearization"
    \/ /\ Len(sortTasks) = Len(tasks)
       /\ Range(sortTasks) = DOMAIN tasks
       /\ \A i \in DOMAIN tasks : tasks[i].ddlID \in JobIDs(tasks[i])
       /\ \A i, j \in DOMAIN tasks : i # j => tasks[i].ddlID # tasks[j].ddlID

\* ------------------------------------------------------------------------
\* Properties of the index operations
\* ------------------------------------------------------------------------
\* the registered tables
Registered(cat) == {cat.tables[n] : n \in DOMAIN cat.tables}

\* the number of indexes of table t whose column list contains column x
IndexesOver(cat, t, x) ==
  Cardinality({i \in DOMAIN Indexes(cat, t) : x \in Range(cat.idx[Indexes(cat, t)[i]].columns)})

\* C6: for every column of every registered table, indexReferences equals the
\* number of indexes of the table whose column list contains the column.
C6_IndexReferences ==
  \A t \in Registered(c) : \A x \in Range(Columns(c, t)) :
    c.col[x].indexReferences = IndexesOver(c, t, x)

\* the last two appliers the replay loop called were a rename-index that gave
\* an index its new name and a drop-index prepared for that index
RenamedThenDropped ==
  /\ Replayed
  /\ applyIdx > 2
  /\ LET rename == tasks[sortTasks[applyIdx - 2]]
         drop == LastApplied
     IN /\ rename.k = ddlRenameIndex
        /\ drop.k = ddlDropIndex
        /\ rename.tblInfo = drop.tblInfo
        /\ c.idx[drop.arg.index].name = rename.arg.newIndex

\* C10: when a rename-index and then a drop-index prepared for the same index
\* are replayed, the drop-index applier fails with a not-exists error, and if
\* the server rejected the drop too the dispatcher reports no divergence.
C10_RenameThenDropIndex ==
  RenamedThenDropped =>
    /\ lerr = "index is not exists"
    /\ LastApplied.err # NoErr => pc # "aborted"

\* ------------------------------------------------------------------------
\* Properties of the column operations
\* ------------------------------------------------------------------------
\* this step of prepareDropColumn chose column x of table t: it set the
\* tombstone of x or sent a drop-column task for x
DropChosen(t, x) ==
  \/ ~c.col[x].deleted /\ c'.col[x].deleted
  \/ /\ Len(taskCh') = Len(taskCh) + 1
     /\ taskCh'[Len(taskCh')].k = ddlDropColumn
     /\ taskCh'[Len(taskCh')].tblInfo = t
     /\ taskCh'[Len(taskCh')].arg.column = x

\* C7: prepareDropColumn sets the tombstone and sends a task only for a column
\* that is no primary key, has no index reference and no generated column
\* depending on it, in a table with more than one live column; and no step of
\* a preparer changes the indexReferences of a column.
C7_DropProtection ==
  [][pc = "idle" =>
       /\ \A t \in DOMAIN c.tbl : \A x \in Range(Columns(c, t)) :
            DropChosen(t, x) =>
              /\ ~c.col[x].isPrimaryKey
              /\ c.col[x].indexReferences = 0
              /\ ~hasGenerateCol(c, x)
              /\ Len(filterColumns(c, t)) > 1
       /\ \A x \in DOMAIN c.col : c'.col[x].indexReferences = c.col[x].indexReferences]_vars

\* a drop-column task has been sent and applied, the second table is left with
\* one column, the protected columns of the first table are untouched, and
\* prepareDropColumn can be called again
C7_Witness ==
  /\ pc = "idle"
  /\ result = "nil"
  /\ nprep \in 1..(MaxTasks - 1)
  /\ Len(Columns(c, 2)) = 1
  /\ Len(filterColumns(c, 2)) = 1
  /\ \E x \in Range(Columns(c, 1)) : c.col[x].isPrimaryKey /\ ~c.col[x].deleted
  /\ \E x \in Range(Columns(c, 1)) : c.col[x].indexReferences > 0 /\ ~c.col[x].deleted
  /\ \E x \in Range(Columns(c, 1)) : hasGenerateCol(c, x) /\ ~c.col[x].deleted

\* the order of the columns after a modify-column AFTER X: cols with the
\* column orig taken out and the column new put right behind X, or new in the
\* place of orig when X is orig
MovedAfter(cols, orig, new, X) ==
  LET at == CHOOSE i \in DOMAIN cols : cols[i] = orig
      rest == ListRemove(cols, at - 1)
      xat == CHOOSE i \in DOMAIN rest : rest[i] = X
  IN IF X = orig THEN [cols EXCEPT ![at] = new]
     ELSE ListInsert(rest, xat, new)

\* C9: a modify-column task with strategy AFTER X that is applied with
\* success leaves the columns in the order they had before the applier ran,
\* with the modified column moved right behind X (and in its old place when X
\* is the modified column itself).
C9_ModifyAfter ==
  [][(pc = "apply" /\ applyIdx' = applyIdx + 1 /\ lerr' = NoErr) =>
       LET task == tasks[sortTasks[applyIdx]]
           t == task.tblInfo
       IN (/\ task.k = ddlModifyColumn
           /\ task.arg.strategy = ddlTestAddDropColumnStrategyAtRandom
           /\ task.arg.origColumn \in Range(Columns(c, t))
           /\ task.arg.insertAfterColumn \in Range(Columns(c, t)))
          => Columns(c', t) = MovedAfter(Columns(c, t), task.arg.origColumn,
                                         task.arg.column, task.arg.insertAfterColumn)]_vars

\* ------------------------------------------------------------------------
\* Properties of create-table reconciliation
\* ------------------------------------------------------------------------
\* the history rows of kind create table that carry the name of the task's table
RowsNamed(task) ==
  {n \in DOMAIN history : /\ history[n].k = ddlAddTable
                          /\ history[n].tableName = c.tbl[task.tblInfo].name}

\* C11: when getSortTask has matched a batch, every add-table task of it
\* carries the job id of the history row named like its table and its table
\* carries that row's TABLE_ID, in whatever order the rows came; and once the
\* replay loop has run the task's applier the table is registered under its name.
C11_CreateTableReconciliation ==
  (Sorted /\ result # "linearization") =>
    /\ \A i \in DOMAIN tasks : tasks[i].k = ddlAddTable =>
         \E n \in RowsNamed(tasks[i]) :
           /\ tasks[i].ddlID = history[n].id
           /\ c.tbl[tasks[i].tblInfo].id = history[n].tableID
    /\ \A p \in 1..(applyIdx - 1) :
         LET task == tasks[sortTasks[p]]
         IN task.k = ddlAddTable =>
              /\ c.tbl[task.tblInfo].name \in DOMAIN c.tables
              /\ c.tables[c.tbl[task.tblInfo].name] = task.tblInfo

\* a batch of two add-table tasks has been replayed to its end, the task
\* drained second holding the older job
C11_Witness ==
  /\ pc = "idle"
  /\ result = "nil"
  /\ Len(tasks) = 2
  /\ applyIdx = 3
  /\ \A i \in DOMAIN tasks : tasks[i].k = ddlAddTable
  /\ tasks[2].ddlID < tasks[1].ddlID
  /\ \A i \in DOMAIN tasks : c.tbl[tasks[i].tblInfo].name \in DOMAIN c.tables

\* ------------------------------------------------------------------------
\* Specification of add column beside drop column
\* ------------------------------------------------------------------------
NextAddColumn ==
  \/ AddColumn
  \/ DropColumn
  \/ Dispatch

SpecAddColumn == InitModify /\ [][NextAddColumn]_vars

\* the replay loop runs the applier of a task of kind k in this step
Applies(k) ==
  /\ pc = "apply"
  /\ applyIdx' = applyIdx + 1
  /\ tasks[sortTasks[applyIdx]].k = k

\* cols is old with the column new put in at position at (from 1)
InsertedAt(cols, old, new, at) ==
  /\ Len(cols) = Len(old) + 1
  /\ at \in DOMAIN cols
  /\ cols[at] = new
  /\ ListRemove(cols, at - 1) = old

\* C12: addColumnJob on a registered table puts the new column first for
\* FIRST, last for END and right behind the place column X has now for AFTER
\* X, the other columns keeping their order; when no column of the table is
\* named like X it returns an error and leaves the columns as they were.
C12_AddColumnPlacement ==
  [][(Applies(ddlAddColumn) /\ ~isTableDeleted(c, tasks[sortTasks[applyIdx]].tblInfo)) =>
       LET task == tasks[sortTasks[applyIdx]]
           t == task.tblInfo
           old == Columns(c, t)
           x == FindFrom(ColumnNames(c, t), c.col[task.arg.insertAfterColumn].name, 1)
       IN IF task.arg.strategy = ddlTestAddDropColumnStrategyAtBeginning
          THEN lerr' = NoErr /\ InsertedAt(Columns(c', t), old, task.arg.column, 1)
          ELSE IF task.arg.strategy = ddlTestAddDropColumnStrategyAtEnd
          THEN lerr' = NoErr /\ InsertedAt(Columns(c', t), old, task.arg.column, Len(old) + 1)
          ELSE IF x # -1
          THEN lerr' = NoErr /\ InsertedAt(Columns(c', t), old, task.arg.column, x + 2)
          ELSE lerr' # NoErr /\ Columns(c', t) = old]_vars

\* an add-column AFTER X has been applied with success and its column stands
\* between two others
C12_Witness ==
  /\ Replayed
  /\ LastApplied.k = ddlAddColumn
  /\ LastApplied.arg.strategy = ddlTestAddDropColumnStrategyAtRandom
  /\ lerr = NoErr
  /\ \E i \in 2..(Len(Columns(c, LastApplied.tblInfo)) - 1) :
       Columns(c, LastApplied.tblInfo)[i] = LastApplied.arg.column

\* ------------------------------------------------------------------------
\* Properties of the dispatcher's synchronisation
\* ------------------------------------------------------------------------
\* the worker of task i has run db.Exec, recorded what came of it and called
\* wg.Done()
WorkerDone(i) == i \notin running

\* C13: while a batch is in execParaDDLSQL, the step that reads the history
\* (getSortTask) and every step that changes the catalog happen only when no
\* worker of the batch is running and every worker has recorded its outcome.
C13_JoinBeforeOracle ==
  [][(pc \in {"workers", "apply"} /\ (c' # c \/ sortTasks' # sortTasks \/ pc' # "workers"))
       => \A i \in DOMAIN tasks : WorkerDone(i)]_vars

\* the history has been read for a batch of two tasks, one rejected by the
\* server and one executed as a DDL job
C13_Witness ==
  /\ pc = "apply"
  /\ Len(tasks) = 2
  /\ running = {}
  /\ tasks[1].err # NoErr
  /\ tasks[2].err = NoErr
  /\ JobIDs(tasks[2]) # {}

\* ------------------------------------------------------------------------
\* Properties of ignorable server errors
\* ------------------------------------------------------------------------
\* the worker of task i got an error from the server that ddlIgnoreError accepts
Ignored(i) == tasks[i].exec = "ignorable"

\* C14: an ignorable server error is not recorded on its task, and it does not
\* make execParaDDLSQL return an error: when every other task of the batch has
\* its history row and no two tasks share (kind, target), the batch does not
\* end in a linearization failure, with or without a history row for the
\* ignored statement; and the replay does not stop at the ignored task when
\* its applier succeeded.
C14_IgnorableErrors ==
  Sorted =>
    /\ \A i \in DOMAIN tasks : Ignored(i) => tasks[i].err = NoErr
    /\ (/\ \E i \in DOMAIN tasks : Ignored(i)
        /\ \A i \in DOMAIN tasks : ~Ignored(i) => JobIDs(tasks[i]) # {}
        /\ ~DuplicateInBatch)
         => result # "linearization"
    /\ (Replayed /\ LastApplied.exec = "ignorable" /\ lerr = NoErr) => pc # "aborted"

\* ------------------------------------------------------------------------
\* execSerialDDLSQL and its specification
\* ------------------------------------------------------------------------
\* what a call leaves behind: the catalog, the channel, the error returned,
\* and whether updateTableInfo was called and with what error. o is what
\* db.Exec answers
Serially(cat, ch, ret, applied, le) ==
  [c |-> cat, taskCh |-> ch, ret |-> ret, applied |-> applied, lerr |-> le]

\* a serial dispatcher that calls the applier after an ignorable server error
execSerialDDLSQL_ApplyIgnored(cat, ch, o) ==
  IF Len(ch) < 1 THEN Serially(cat, ch, NoErr, FALSE, NoErr)
  ELSE
    LET task == Head(ch)
        r == updateTableInfo(cat, task)
    IN IF o.err # NoErr /\ ~ddlIgnoreError(o.err)
       THEN Serially(cat, Tail(ch), "remote error", FALSE, NoErr)
       ELSE IF r.err = "panic" THEN Serially(r.c, Tail(ch), "panic", TRUE, r.err)
       ELSE IF r.err # NoErr THEN Serially(r.c, Tail(ch), "local error", TRUE, r.err)
       ELSE Serially(r.c, Tail(ch), NoErr, TRUE, r.err)

execSerialDDLSQL(cat, ch, o) ==
  IF Len(ch) < 1 THEN Serially(cat, ch, NoErr, FALSE, NoErr)
  ELSE
    LET task == Head(ch)
        r == updateTableInfo(cat, task)
    IN IF o.err # NoErr
       THEN IF ddlIgnoreError(o.err)
            THEN Serially(cat, Tail(ch), NoErr, FALSE, NoErr)
            ELSE Serially(cat, Tail(ch), "remote error", FALSE, NoErr)
       ELSE IF r.err = "panic" THEN Serially(r.c, Tail(ch), "panic", TRUE, r.err)
       ELSE IF r.err # NoErr THEN Serially(r.c, Tail(ch), "local error", TRUE, r.err)
       ELSE Serially(r.c, Tail(ch), NoErr, TRUE, r.err)

\* one call of execSerialDDLSQL; the task it took is kept in tasks with the
\* server's answer
Serial ==
  /\ pc = "idle"
  /\ \E o \in ServerOutcomes :
       LET r == execSerialDDLSQL(c, taskCh, o) IN
       /\ c' = r.c
       /\ taskCh' = r.taskCh
       /\ result' = IF r.ret = NoErr THEN "nil" ELSE r.ret
       /\ pc' = IF r.ret = NoErr THEN "idle" ELSE "aborted"
       /\ lerr' = IF r.applied THEN r.lerr ELSE lerr
       /\ tasks' = IF taskCh = <<>> THEN tasks ELSE <<[Head(taskCh) EXCEPT !.exec = o.err]>>
       /\ history' = IF taskCh # <<>> /\ o.row
                     THEN Append(history, HistoryRow(c, Head(taskCh), Head(taskCh).seq,
                                                     NextJobID(history)))
                     ELSE history
  /\ UNCHANGED <<running, sortTasks, applyIdx, nprep, locks>>

NextSerial ==
  \/ CreateSchema
  \/ DropColumn
  \/ Serial

SpecSerial == InitDropColumn /\ [][NextSerial]_vars

\* C15: execSerialDDLSQL on an empty channel returns nil and touches neither
\* the server nor the catalog; otherwise it takes exactly the first task and
\* calls its applier if and only if the server executed the statement without
\* error. A server error that is not ignorable makes it return an error, an
\* ignorable one makes it return nil, both without the applier; an applier
\* error after the server's success makes it return an error.
C15_SerialDispatch ==
  [][(pc = "idle" /\ Len(taskCh') <= Len(taskCh)) =>
       IF taskCh = <<>>
       THEN c' = c /\ history' = history /\ taskCh' = taskCh /\ result' = "nil" /\ pc' = "idle"
       ELSE /\ taskCh' = Tail(taskCh)
            /\ tasks'[1].seq = Head(taskCh).seq
            /\ LET exec == tasks'[1].exec
                   r == updateTableInfo(c, Head(taskCh))
               IN IF exec = NoErr
                  THEN /\ c' = r.c
                       /\ lerr' = r.err
                       /\ IF r.err = NoErr THEN result' = "nil" /\ pc' = "idle"
                          ELSE result' # "nil" /\ pc' = "aborted"
                  ELSE /\ c' = c
                       /\ lerr' = lerr
                       /\ IF exec = "ignorable" THEN result' = "nil" /\ pc' = "idle"
                          ELSE result' # "nil" /\ pc' = "aborted"]_vars

\* a serial call has returned the error of the applier: the server had
\* executed the statement of a task whose column a task before it had dropped
C15_Witness ==
  /\ pc = "aborted"
  /\ result = "local error"
  /\ Len(tasks) = 1
  /\ tasks[1].exec = NoErr
  /\ tasks[1].k = ddlDropColumn
  /\ lerr # NoErr

\* ------------------------------------------------------------------------
\* Tasks whose table or schema is gone when they are replayed: two tables,
\* the first with an indexed column, and every kind of task that targets an
\* existing table or schema
\* ------------------------------------------------------------------------
RecheckCatalog ==
  [uuid |-> 7, lastDDLID |-> 3,
   schemas |-> MapPut(EmptyMap, 1, 1),
   tables |-> MapPut(MapPut(EmptyMap, 2, 1), 3, 2),
   views |-> EmptyMap,
   sch |-> <<[name |-> 1, id |-> 1, deleted |-> FALSE]>>,
   tbl |-> <<[name |-> 2, id |-> 2, columns |-> 1, idxArr |-> 1, idxLen |-> 1, deleted |-> FALSE,
              comment |-> 0, charset |-> "utf8", collate |-> "utf8_bin", shardRowId |-> 0,
              autoIncID |-> 0, numberOfRows |-> 1],
             [name |-> 3, id |-> 3, columns |-> 2, idxArr |-> 2, idxLen |-> 0, deleted |-> FALSE,
              comment |-> 0, charset |-> "utf8", collate |-> "utf8_bin", shardRowId |-> 0,
              autoIncID |-> 0, numberOfRows |-> 0]>>,
   lists |-> << <<1, 2>>, <<3>> >>,
   arrs |-> << <<1>>, <<>> >>,
   col |-> <<NewColumn(4, KindInt, FALSE),
             [NewColumn(5, KindInt, FALSE) EXCEPT !.indexReferences = 1],
             NewColumn(6, KindInt, FALSE)>>,
   idx |-> <<[name |-> 7, signature |-> <<5>>, columns |-> <<2>>]>>,
   view |-> <<>>]

InitRecheck == InitWith(RecheckCatalog)

NextRecheck ==
  \/ DropSchema
  \/ RenameTable
  \/ DropTable
  \/ TruncateTable
  \/ ModifyTableComment
  \/ ModifyTableCharsetAndCollate
  \/ ShardRowID
  \/ RebaseAutoID
  \/ SetDefaultValue
  \/ AddIndex
  \/ RenameIndex
  \/ DropIndex
  \/ AddColumn
  \/ ModifyColumn
  \/ DropColumn
  \/ Dispatch

SpecRecheck == InitRecheck /\ [][NextRecheck]_vars

\* ------------------------------------------------------------------------
\* C16: the appliers look again at their table or schema
\* ------------------------------------------------------------------------
\* the kinds whose task targets a table that existed when it was prepared
TableTargetKinds ==
  {ddlRenameTable, ddlTruncateTable, ddlDropTable, ddlModifyTableComment,
   ddlModifyTableCharsetAndCollate, ddlShardRowID, ddlRebaseAutoID,
   ddlAddIndex, ddlRenameIndex, ddlDropIndex,
   ddlAddColumn, ddlModifyColumn, ddlDropColumn, ddlSetDefaultValue}

\* the object the task was prepared on is no longer in the live catalog
TargetRemoved(cat, task) ==
  \/ task.k \in TableTargetKinds /\ task.tblInfo \notin Registered(cat)
  \/ task.k = ddlDropSchema /\ task.schemaInfo \notin {cat.schemas[n] : n \in DOMAIN cat.schemas}

NotExists == {"table is not exists", "schema doesn't exist"}

\* C16: an applier whose task targets an existing table or schema returns a
\* not-exists error and leaves the catalog as it is when that table or schema
\* is no longer in the live catalog at the time the applier runs
C16_ApplierRecheck ==
  [][(pc = "apply" /\ applyIdx' = applyIdx + 1
      /\ TargetRemoved(c, tasks[sortTasks[applyIdx]]))
     => (lerr' \in NotExists /\ c' = c)]_vars

\* a drop or rename of a table was replayed, and right after it a different
\* task of the same batch on the same table, which got the not-exists error
C16_Witness ==
  /\ Replayed
  /\ applyIdx = 3
  /\ sortTasks[1] # sortTasks[2]
  /\ tasks[sortTasks[1]].k \in {ddlDropTable, ddlRenameTable}
  /\ tasks[sortTasks[2]].k \in TableTargetKinds \ {ddlDropTable, ddlRenameTable}
  /\ tasks[sortTasks[2]].tblInfo = tasks[sortTasks[1]].tblInfo
  /\ lerr = "table is not exists"

\* ------------------------------------------------------------------------
\* C17: the column appliers look again at their column
\* ------------------------------------------------------------------------
\* the columns a column task chose when it was prepared
ChosenColumns(cat, task) ==
  CASE task.k = ddlModifyColumn -> {task.arg.origColumn}
    [] task.k \in {ddlSetDefaultValue, ddlDropColumn} -> {task.arg.column}
    [] task.k = ddlAddIndex -> Range(cat.idx[task.arg.index].columns)
    [] OTHER -> {}

\* a drop column replayed earlier in this batch took one of the columns the
\* task chose out of the table
ColumnDroppedBefore(cat, task) ==
  \E j \in 1..(applyIdx - 1) :
    LET drop == tasks[sortTasks[j]]
    IN /\ drop.k = ddlDropColumn
       /\ drop.tblInfo = task.tblInfo
       /\ drop.arg.column \in ChosenColumns(cat, task)
       /\ drop.arg.column \notin Range(Columns(cat, task.tblInfo))

Listings == {history, Reverse(history)}

Reconciles == pc = "workers" /\ pc' # "workers"

\* C19: c.lastDDLID never decreases; it grows when the reconciliation of a
\* batch succeeds and stays when the reconciliation fails
C19_LastSeenMonotonic ==
  [][/\ c'.lastDDLID >= c.lastDDLID
     /\ (Reconciles /\ pc' = "apply") => c'.lastDDLID > c.lastDDLID
     /\ (Reconciles /\ pc' # "apply") => c'.lastDDLID = c.lastDDLID]_vars

\* a second batch has been reconciled: c.lastDDLID is the id of its newest
\* job, above the id it was left at by an earlier batch
C19_Witness ==
  /\ pc = "apply"
  /\ applyIdx = 1
  /\ Len(history) > Len(tasks)
  /\ c.lastDDLID = tasks[sortTasks[Len(sortTasks)]].ddlID
  /\ c.lastDDLID > TableCatalog.lastDDLID + 1

\* ------------------------------------------------------------------------
\* The locking of the preparers and appliers: c.tablesLock and table.lock.
\* Each function is followed through its Lock calls and its deferred
\* Unlock calls; goroutines interleave between them.
\* ------------------------------------------------------------------------
LockTables == [a |-> "Lock", l |-> "tablesLock"]
UnlockTables == [a |-> "Unlock", l |-> "tablesLock"]
LockTable == [a |-> "Lock", l |-> "lock"]
UnlockTable == [a |-> "Unlock", l |-> "lock"]

\* a rename preparer that locks the table before the table map
prepareRenameTableLocks_TableFirst(table) ==
  IF table = NULL THEN <<LockTables, UnlockTables>>
  ELSE <<LockTable, LockTables, UnlockTables, UnlockTable>>

\* c.tablesLock.Lock(), then, unless no table was picked, table.lock.Lock();
\* the deferred calls unlock in the reverse order
prepareRenameTableLocks(table) ==
  IF table = NULL THEN <<LockTables, UnlockTables>>
  ELSE <<LockTables, LockTable, UnlockTable, UnlockTables>>

\* the functions that take c.tablesLock only
TablesLockOps == {"addTableInfo", "renameTableJob", "prepareDropTable", "dropTableJob"}

\* the functions that take the lock of their table only
TableLockOps ==
  {"truncateTableJob", "rebaseAutoIDJob", "addColumnJob", "prepareModifyColumn",
   "modifyColumnJob", "dropColumnJob", "setDefaultValueJob"}

LockingOps == TablesLockOps \cup TableLockOps \cup {"prepareRenameTable"}

\* the Lock and Unlock calls of a function, in the order it makes them
LockProgram(op, table) ==
  IF op = "prepareRenameTable" THEN prepareRenameTableLocks(table)
  ELSE IF op \in TablesLockOps THEN <<LockTables, UnlockTables>>
  ELSE IF table = NULL THEN <<>>
  ELSE <<LockTable, UnlockTable>>

\* the mutex a step is about
Mutex(step, table) == [l |-> step.l, table |-> IF step.l = "lock" THEN table ELSE NULL]

HeldBy(p) == Range(locks[p].held)

\* a goroutine enters a preparer or an applier; only a preparer can be
\* without a table
LockBegin ==
  \E p \in Procs, op \in LockingOps, table \in Registered(c) \cup {NULL} :
    /\ locks[p].op = "none"
    /\ table = NULL => op \in {"prepareRenameTable", "prepareDropTable", "prepareModifyColumn"}
    /\ locks' = [locks EXCEPT ![p] = [op |-> op, table |-> table, at |-> 1, held |-> <<>>]]
    /\ UNCHANGED <<c, taskCh, pc, tasks, running, sortTasks, applyIdx, result, lerr, history, nprep>>

\* the next Lock or Unlock call of a goroutine; Lock waits for the mutex
LockStep ==
  \E p \in Procs :
    LET l == locks[p]
        program == LockProgram(l.op, l.table)
        step == program[l.at]
        m == Mutex(step, l.table)
    IN /\ l.op # "none"
       /\ l.at <= Len(program)
       /\ IF step.a = "Lock"
          THEN /\ \A q \in Procs : m \notin HeldBy(q)
               /\ locks' = [locks EXCEPT ![p].at = l.at + 1, ![p].held = Append(l.held, m)]
          ELSE locks' = [locks EXCEPT ![p].at = l.at + 1,
                                      ![p].held = SelectSeq(l.held, LAMBDA h : h # m)]
    /\ UNCHANGED <<c, taskCh, pc, tasks, running, sortTasks, applyIdx, result, lerr, history, nprep>>

\* the function returns
LockEnd ==
  \E p \in Procs :
    /\ locks[p].op # "none"
    /\ locks[p].at > Len(LockProgram(locks[p].op, locks[p].table))
    /\ locks' = [locks EXCEPT ![p] = NotLocking]
    /\ UNCHANGED <<c, taskCh, pc, tasks, running, sortTasks, applyIdx, result, lerr, history, nprep>>

InitLocks == InitWith(RecheckCatalog)

NextLocks ==
  \/ LockBegin
  \/ LockStep
  \/ LockEnd

SpecLocks == InitLocks /\ [][NextLocks]_vars

\* ------------------------------------------------------------------------
\* C20: the table map lock comes before a table's lock
\* ------------------------------------------------------------------------
\* goroutine p is at a Lock call on a mutex that q holds
WaitsFor(p, q) ==
  LET l == locks[p]
      program == LockProgram(l.op, l.table)
  IN /\ l.op # "none"
     /\ l.at <= Len(program)
     /\ program[l.at].a = "Lock"
     /\ Mutex(program[l.at], l.table) \in HeldBy(q)

\* every goroutine of the set waits for a goroutine of the set
WaitCycle(S) == S # {} /\ \A p \in S : \E q \in S : WaitsFor(p, q)

\* C20: no preparer or applier takes c.tablesLock while it holds the lock
\* of a table: where one holds both, c.tablesLock was taken first; and no
\* set of goroutines running preparers and appliers waits in a cycle
C20_LockOrder ==
  /\ \A p \in Procs :
       \A i, j \in DOMAIN locks[p].held :
         (locks[p].held[i].l = "lock" /\ locks[p].held[j].l = "tablesLock") => j < i
  /\ \A S \in SUBSET Procs : ~WaitCycle(S)

\* one goroutine holds c.tablesLock and then the lock of a table, and
\* another one is waiting at its Lock call for one of the two
C20_Witness ==
  \E p, q \in Procs :
    /\ p # q
    /\ Len(locks[p].held) = 2
    /\ locks[p].held[1].l = "tablesLock"
    /\ locks[p].held[2].l = "lock"
    /\ WaitsFor(q, p)

\* ------------------------------------------------------------------------
\* C21: index signatures within a table
\* ------------------------------------------------------------------------
\* C21: no two different indexes of a registered table have the same
\* signature
C21_IndexSignatureUnique ==
  \A t \in Registered(c) :
    \A i, j \in 1..c.tbl[t].idxLen :
      Indexes(c, t)[i] # Indexes(c, t)[j]
        => c.idx[Indexes(c, t)[i]].signature # c.idx[Indexes(c, t)[j]].signature

\* ------------------------------------------------------------------------
\* C22: one task per history row
\* ------------------------------------------------------------------------
\* the largest number of tasks the inner loop of getSortTask appends to
\* sortTasks for one job, over the jobs from j on
RECURSIVE MostMatched(_, _, _)
MostMatched(jobs, j, st) ==
  IF j > Len(jobs) THEN 0
  ELSE LET st1 == MatchTasks(jobs[j], 1, st)
           n == Len(st1.sort) - Len(st.sort)
           rest == IF Len(st1.sort) = Len(st1.tasks) THEN 0 ELSE MostMatched(jobs, j + 1, st1)
       IN IF n >= rest THEN n ELSE rest

\* the batch is about to be reconciled with the history
AtReconciliation == pc = "workers" /\ running = {}

RECURSIVE MatchedIDs(_, _, _)
MatchedIDs(jobs, j, st) ==
  IF j > Len(jobs) THEN {}
  ELSE LET st1 == MatchTasks(jobs[j], 1, st)
           here == IF Len(st1.sort) > Len(st.sort) THEN {jobs[j].id} ELSE {}
       IN IF Len(st1.sort) = Len(st1.tasks) THEN here
          ELSE here \cup MatchedIDs(jobs, j + 1, st1)

\* the job ids matched when the batch is reconciled with this listing
MatchedInBatch(rows) ==
  MatchedIDs(getHistoryDDLJobs(c, rows).jobs, 1, [tasks |-> tasks, c |-> c, sort |-> <<>>])

\* the step reconciles the batch with this listing of the history
ReconcilesWith(rows) ==
  /\ Reconciles
  /\ pc' = "apply"
  /\ getSortTask(c, tasks, rows).sort = sortTasks'
  /\ getSortTask(c, tasks, rows).c = c'

\* C23: after a successful reconciliation c.lastDDLID is the largest job id
\* among the history rows that were matched to tasks of the batch
C23_LastSeenIsMaximum ==
  [][\A rows \in Listings :
       ReconcilesWith(rows) =>
         /\ c'.lastDDLID \in MatchedInBatch(rows)
         /\ \A id \in MatchedInBatch(rows) : id <= c'.lastDDLID]_vars

\* ------------------------------------------------------------------------
\* The history with jobs of other origin: the server also lists jobs that no
\* task of the run made, of types the run knows and of types it does not
\* ------------------------------------------------------------------------
\* Number of jobs of other origin in the history.
MaxForeignJobs == 2

ForeignJobTypes == {"add foreign key", ddlDropTable}

\* a row of the history that no task of the run made
ForeignRow(k, id) ==
  [id |-> id, k |-> k, owner |-> 0, schemaName |-> 0, tableName |-> 0,
   tableID |-> 0, schemaID |-> 0]

ForeignJob ==
  /\ Cardinality({i \in DOMAIN history : history[i].owner = 0}) < MaxForeignJobs
  /\ \E k \in ForeignJobTypes :
       history' = Append(history, ForeignRow(k, NextJobID(history)))
  /\ UNCHANGED <<c, taskCh, pc, tasks, running, sortTasks, applyIdx, result, lerr, nprep, locks>>

InitHistory == InitWith(TableCatalog)

NextHistory ==
  \/ CreateSchema
  \/ DropSchema
  \/ ForeignJob
  \/ Dispatch

SpecHistory == InitHistory /\ [][NextHistory]_vars

\* ------------------------------------------------------------------------
\* C24: what the history query returns
\* ------------------------------------------------------------------------
\* C24: getHistoryDDLJobs returns exactly the rows with an id above
\* c.lastDDLID and a job type mapOfDDLKind knows, in the order of the listing
C24_HistoryFiltering ==
  \A rows \in Listings :
    getHistoryDDLJobs(c, rows).jobs =
      SelectSeq(rows, LAMBDA row : row.id > c.lastDDLID /\ row.k \in mapOfDDLKind)

\* the query is about to be made on a history that holds a job of an unknown
\* type, a job of an earlier batch and a job of this batch
C24_Witness ==
  /\ AtReconciliation
  /\ \E i \in DOMAIN history :
       history[i].id > c.lastDDLID /\ history[i].k \notin mapOfDDLKind
  /\ \E i \in DOMAIN history :
       history[i].id <= c.lastDDLID /\ history[i].k \in mapOfDDLKind
  /\ \E i \in DOMAIN history : history[i].owner \in {tasks[j].seq : j \in DOMAIN tasks}

\* ------------------------------------------------------------------------
\* C25: a committed drop or rename is replayed without divergence
\* ------------------------------------------------------------------------
\* the task the replay loop is about to apply
Applying == tasks[sortTasks[applyIdx]]

\* no other task of the batch has the table or the schema of task i
Untouched(i) ==
  \A j \in DOMAIN tasks \ {i} :
    /\ tasks[i].tblInfo # NULL => tasks[j].tblInfo # tasks[i].tblInfo
    /\ tasks[i].schemaInfo # NULL => tasks[j].schemaInfo # tasks[i].schemaInfo

\* the replay loop applies a drop table, rename table or drop schema that
\* the server accepted and whose entity no other task of the batch has
CommittedRemoval ==
  /\ pc = "apply"
  /\ applyIdx' = applyIdx + 1
  /\ Applying.k \in {ddlDropTable, ddlRenameTable, ddlDropSchema}
  /\ Applying.exec = NoErr
  /\ Untouched(sortTasks[applyIdx])

\* C25: the applier of a committed drop table, rename table or drop schema
\* succeeds, takes the entity out of the live map (a rename registers the
\* table under its new name) and the replay reports no divergence
C25_CommittedRemoval ==
  [][CommittedRemoval =>
       /\ lerr' = NoErr
       /\ pc' # "aborted"
       /\ Applying.k = ddlDropSchema =>
            c.sch[Applying.schemaInfo].name \notin DOMAIN c'.schemas
       /\ Applying.k \in {ddlDropTable, ddlRenameTable} =>
            /\ c.tbl[Applying.tblInfo].name \notin DOMAIN c'.tables
            /\ Applying.tblInfo \notin Registered(c')
       /\ Applying.k = ddlRenameTable =>
            /\ Applying.arg.newTbl \in Registered(c')
            /\ c'.tables[c.tbl[Applying.arg.newTbl].name] = Applying.arg.newTbl]_vars

\* a batch of two tasks was replayed up to a drop table, rename table or
\* drop schema that the server accepted, on an entity the other task does
\* not have: the applier returned no error and the run goes on
C25_Witness ==
  /\ Replayed
  /\ Len(tasks) = 2
  /\ LastApplied.k \in {ddlDropTable, ddlRenameTable, ddlDropSchema}
  /\ LastApplied.exec = NoErr
  /\ Untouched(sortTasks[applyIdx - 1])
  /\ lerr = NoErr
  /\ pc # "aborted"

\* ------------------------------------------------------------------------
\* A run in which the generation pass has already prepared a drop of the
\* index of the table and then a rename of the table; both tasks wait in the
\* channel, and MaxTasks more tasks follow
\* ------------------------------------------------------------------------
DropIndexPrepared == prepareDropIndex(IndexCatalog, 1, 0)

RenameTablePrepared == prepareRenameTable(DropIndexPrepared.c, 1)

InitReferences ==
  /\ c = RenameTablePrepared.c
  /\ taskCh = <<[DropIndexPrepared.task EXCEPT !.seq = MaxTasks + 1],
                [RenameTablePrepared.task EXCEPT !.seq = MaxTasks + 2]>>
  /\ pc = "idle"
  /\ tasks = <<>>
  /\ running = {}
  /\ sortTasks = <<>>
  /\ applyIdx = 1
  /\ result = "none"
  /\ lerr = NoErr
  /\ history = <<>>
  /\ nprep = 0
  /\ locks = [p \in Procs |-> NotLocking]

NextReferences ==
  \/ AddIndex
  \/ DropIndex
  \/ Dispatch

SpecReferences == InitReferences /\ [][NextReferences]_vars

\* ------------------------------------------------------------------------
\* C26: index-reference counts
\* ------------------------------------------------------------------------
\* C26: no column has a negative indexReferences
C26_ReferencesNotNegative ==
  \A x \in DOMAIN c.col : c.col[x].indexReferences >= 0

\* ------------------------------------------------------------------------
\* C27: what a rename keeps of the table
\* ------------------------------------------------------------------------
\* the state of a table the claim speaks of
TableState(cat, t) ==
  [columns |-> Columns(cat, t), indexes |-> Indexes(cat, t),
   numberOfRows |-> cat.tbl[t].numberOfRows, comment |-> cat.tbl[t].comment,
   charset |-> cat.tbl[t].charset, collate |-> cat.tbl[t].collate,
   shardRowId |-> cat.tbl[t].shardRowId]

\* C27: when renameTableJob succeeds, the table registered under the new
\* name has the columns, indexes, row count, comment, charset, collation
\* and shard row id bits the source table had right before the applier ran
C27_RenameKeepsState ==
  [][(Applies(ddlRenameTable) /\ lerr' = NoErr)
       => TableState(c', Applying.arg.newTbl) = TableState(c, Applying.tblInfo)]_vars

\* ------------------------------------------------------------------------
\* C28: what a modify column replaces
\* ------------------------------------------------------------------------
\* the sequence without the element x
Without(s, x) == SelectSeq(s, LAMBDA y : y # x)

\* C28: when modifyColumnJob succeeds, the column taken out of the table is
\* the one the preparer chose, the table has as many columns as before, and
\* the other columns are all there in the order they had
C28_ModifyReplacesChosen ==
  [][(Applies(ddlModifyColumn) /\ lerr' = NoErr)
       => LET before == Columns(c, Applying.tblInfo)
              after == Columns(c', Applying.tblInfo)
          IN /\ Len(after) = Len(before)
             /\ Applying.arg.origColumn \notin Range(after)
             /\ Without(after, Applying.arg.column)
                  = Without(before, Applying.arg.origColumn)]_vars

\* ------------------------------------------------------------------------
\* C29: what a set default value changes
\* ------------------------------------------------------------------------
\* the columns of the catalog whose default value the step changes
DefaultChanged ==
  {i \in 1..Len(c.col) : c'.col[i].defaultValue # c.col[i].defaultValue}

\* C29: when setDefaultValueJob succeeds, the column whose default value is
\* written is the one the preparer chose, and no other column's default
\* value changes
C29_SetDefaultChosen ==
  [][(Applies(ddlSetDefaultValue) /\ lerr' = NoErr)
       => /\ Len(c'.col) = Len(c.col)
          /\ DefaultChanged \subseteq {Applying.arg.column}
          /\ c'.col[Applying.arg.column].defaultValue
               = Applying.arg.newDefaultValue]_vars

\* ------------------------------------------------------------------------
\* C30: what a rename index renames
\* ------------------------------------------------------------------------
\* the indexes of the catalog whose name the step changes
IndexRenamed ==
  {i \in 1..Len(c.idx) : c'.idx[i].name # c.idx[i].name}

\* the index a rename index task chose when it was prepared: the preparer's
\* local index := table.indexes[loc], which the statement names
ChosenIndex(task) == task.arg.index

\* C30: when renameIndexJob succeeds, the index that gets the new name is the
\* one the preparer chose and no other index changes its name; when that
\* index is no longer among the table's indexes, renameIndexJob returns a
\* not exists error
C30_RenameIndexChosen ==
  [][Applies(ddlRenameIndex)
       => /\ lerr' = NoErr
               => /\ Len(c'.idx) = Len(c.idx)
                  /\ IndexRenamed \subseteq {ChosenIndex(Applying)}
                  /\ c'.idx[ChosenIndex(Applying)].name = Applying.arg.newIndex
          /\ (/\ ~isTableDeleted(c, Applying.tblInfo)
              /\ ChosenIndex(Applying) \notin Range(Indexes(c, Applying.tblInfo)))
               => lerr' = "index is not exists"]_vars

\* ------------------------------------------------------------------------
\* C31: what an applier that returns an error leaves behind
\* ------------------------------------------------------------------------
\* the structure of the catalog: the live maps, every table's columns and
\* indexes, every column's count of index references
Structure(cat) ==
  [schemas |-> cat.schemas, tables |-> cat.tables, views |-> cat.views,
   columns |-> [t \in DOMAIN cat.tbl |-> Columns(cat, t)],
   indexes |-> [t \in DOMAIN cat.tbl |-> Indexes(cat, t)],
   indexReferences |-> [x \in DOMAIN cat.col |-> cat.col[x].indexReferences]]

\* an applier called by the replay loop returns an error
ApplierFails ==
  /\ pc = "apply"
  /\ applyIdx' = applyIdx + 1
  /\ lerr' \notin {NoErr, "panic"}

\* C31: when an applier called through updateTableInfo returns an error, the
\* live schema, table and view maps, every table's column sequence and index
\* list and every column's indexReferences are what they were before the call
C31_ErrorLeavesStructure ==
  [][ApplierFails => Structure(c') = Structure(c)]_vars

\* ------------------------------------------------------------------------
\* C32: a batch that returns nil has replayed every task once
\* ------------------------------------------------------------------------
\* the number of applier calls the replay loop has made for task i
Invocations(i) ==
  Cardinality({j \in 1..(applyIdx - 1) : j <= Len(sortTasks) /\ sortTasks[j] = i})

\* execParaDDLSQL has returned nil for a batch of at least one task
ReturnedNil == pc = "idle" /\ result = "nil" /\ tasks # <<>>

\* C32: when execParaDDLSQL returns nil for a batch, the applier of every
\* task of the batch has been called exactly once
C32_CompleteReplay ==
  ReturnedNil => \A i \in DOMAIN tasks : Invocations(i) = 1

\* ------------------------------------------------------------------------
\* C33: a create view whose base table is gone
\* ------------------------------------------------------------------------
\* the base table of the view of a create view task
BaseTable(task) == c.view[task.viewInfo].table

\* the replay loop calls createViewJob for a view whose base table, or one of
\* whose columns, an earlier applier has removed
CreateViewOnRemoved ==
  /\ Applies(ddlCreateView)
  /\ \/ isTableDeleted(c, BaseTable(Applying))
     \/ \E i \in DOMAIN c.view[Applying.viewInfo].columns :
          isColumnDeleted(c, c.view[Applying.viewInfo].columns[i], BaseTable(Applying))

\* C33: when the base table of a create view task, or one of its columns, has
\* been removed by an earlier applier, createViewJob returns an error and
\* does not register the view, and a statement the server rejected raises no
\* divergence
C33_CreateViewOnDropped ==
  [][CreateViewOnRemoved
       => /\ lerr' # NoErr
          /\ c'.views = c.views
          /\ Applying.err # NoErr => pc' # "aborted"]_vars

\* ------------------------------------------------------------------------
\* C34: a batch call comes to its end
\* ------------------------------------------------------------------------
\* execParaDDLSQL has returned, with nil or with an error
Returned == pc = "idle" \/ (pc = "aborted" /\ result # "panic")

\* the receive loop of a call with num > 0 has run
Received == pc = "idle" /\ pc' = "workers"

\* a call with num = 0 has returned
ReturnedAtOnce == pc = "idle" /\ pc' = "idle" /\ result' # result

\* the call is past its receive loop and has not ended
InBatch == pc \in {"workers", "apply"}

\* the guards of ParaWorker, ParaSort and ParaReplay: a worker is running,
\* or the workers are done and getSortTask is next, or the replay loop has a
\* task left
CanStep ==
  \/ pc = "workers" /\ running # {}
  \/ pc = "workers" /\ running = {}
  \/ pc = "apply" /\ applyIdx <= Len(sortTasks)

\* the steps the call has left at most: one per running worker, getSortTask,
\* one per round of the replay loop
StepsLeft ==
  IF pc = "workers" THEN Cardinality(running) + 1 + Len(tasks)
  ELSE IF pc = "apply" THEN Len(sortTasks) + 1 - applyIdx
  ELSE 0

\* C34: execParaDDLSQL(taskCh, N) receives exactly N tasks, the first N of
\* the channel, and starts exactly N workers; with N = 0 it returns nil and
\* leaves the channel, the server and the catalog alone; and a call that has
\* received its tasks comes to its end, which is a return with nil or with an
\* error: it always has a step to take, every step leaves fewer steps, and
\* it ends in no other way than a return
C34_BatchTermination ==
  /\ [][Received => /\ Len(tasks') >= 1
                    /\ taskCh = tasks' \o taskCh'
                    /\ running' = 1..Len(tasks')]_vars
  /\ [][ReturnedAtOnce => /\ result' = "nil"
                          /\ UNCHANGED <<c, taskCh, tasks, running, history>>]_vars
  /\ [](InBatch => CanStep)
  /\ [][InBatch => StepsLeft' < StepsLeft]_vars
  /\ [](~InBatch => Returned)
====
